---- MODULE Spec2Model ----
(***************************************************************************)
(* Tile acquisition core of RSDatasetGenerator: the in-memory TileCache,   *)
(* the on-disk tile store, and the per-tile fetch of the sequential        *)
(* (SyncDownloader) and bounded-concurrent (AsyncDownloader) strategies.   *)
(***************************************************************************)
EXTENDS Integers, Sequences, FiniteSets, TLC

(* ------------------------------ bounds --------------------------------- *)
\* largest TileCache.max_size drawn at construction
MaxCacheSize == 2
\* largest config.download.max_retries drawn at construction
MaxRetriesBound == 2
\* largest config.download.max_concurrency drawn at construction
MaxConcurrencyBound == 2

\* number of fetches that can be under way at once
MaxTasks == 2

(* -------------------------- program constants -------------------------- *)
\* validate_tile_coordinates: z > 20 is rejected
MaxZoom == 20
\* DownloadConfig.backoff_base
backoff_base == 2

(* ------------------------------ universe ------------------------------- *)
None == "None"

Tile(x, y, z) == [x |-> x, y |-> y, z |-> z]

\* stands for "no key" in the history records
NoKey == Tile(-1, -1, -1)

\* coordinates handed to the downloader: two valid ones, and three that
\* fail validation (x = 2^z, z = 21, y < 0)
Tiles ==
    { Tile(0, 0, 0), Tile(1, 0, 1), Tile(2, 0, 1), Tile(0, 0, 21), Tile(0, -1, 0) }

\* the fetches that can be under way at once: tasks of a concurrent batch
TaskIds == 1..MaxTasks

\* decoded images (PIL.Image objects), told apart by content
Images == {"imgA", "imgB"}

VARIABLES
    max_size,       \* TileCache.max_size
    cache,          \* TileCache._cache : key -> image
    access_order,   \* TileCache._access_order
    recency,        \* history: keys ordered by their last access (put / get hit)
    lastOp,         \* history: the last TileCache call made through the API
    disk,           \* on-disk tile store: "absent", "corrupt" or the stored image
    strategy,       \* "none", "sync" (SyncDownloader) or "async" (AsyncDownloader)
    max_retries,    \* config.download.max_retries
    max_concurrency,\* config.download.max_concurrency
    permits,        \* AsyncDownloader.semaphore._value
    tasks,          \* the fetches: one record per slot
    settled,        \* history: coordinates some fetch has returned success for
    batch,          \* one call of download_tiles: its tiles, results and outcome
    geo,            \* one point with its tile set and pixel position
    mosaic,         \* one call of TileMerger.merge_tiles: arguments and image
    conf,           \* the Config singleton: config.download and how it was set
    run,            \* one call of DataProcessor._process_points
    session,        \* AsyncDownloader.session and the connector it is built on
    stats           \* BaseDownloader.monitor.stats (PerformanceMonitor)

vars == << max_size, cache, access_order, recency, lastOp, disk, strategy,
           max_retries, max_concurrency, permits, tasks, settled,
           batch, geo, mosaic, conf, run, session, stats >>

\* the parts of the program a specification leaves out are switched off
Off == [state |-> "off"]

extVars == << batch, geo, mosaic, conf, run, session, stats >>

histVars == << recency, lastOp >>
dlVars == << disk, strategy, max_retries, max_concurrency, permits, tasks, settled >>

(* ------------------------------ helpers -------------------------------- *)
RECURSIVE Pow(_, _)
\* b ** e and 1 << e
Pow(b, e) == IF e = 0 THEN 1 ELSE b * Pow(b, e - 1)

RECURSIVE RemoveFirst(_, _)
\* list.remove(k): drops the first occurrence of k
RemoveFirst(s, k) ==
    IF s = << >> THEN << >>
    ELSE IF Head(s) = k THEN Tail(s)
    ELSE << Head(s) >> \o RemoveFirst(Tail(s), k)

\* dict without one key
DictDel(d, k) == [j \in (DOMAIN d) \ {k} |-> d[j]]

\* dict with d[k] = v
DictSet(d, k, v) == [j \in (DOMAIN d) \cup {k} |-> IF j = k THEN v ELSE d[j]]

EmptyDict == [j \in {} |-> None]

(* ------------------------------ TileCache ------------------------------ *)
\* TileCache.get: the value returned
CacheGetValue(c, key) == IF key \in DOMAIN c THEN c[key] ELSE None

\* TileCache.get that leaves the access order alone on a hit
CacheGetOrderNoPromote(c, order, key) == order

\* TileCache.get: the access order afterwards
CacheGetOrder(c, order, key) ==
    IF key \in DOMAIN c THEN Append(RemoveFirst(order, key), key) ELSE order

\* TileCache.put that evicts the newest entry (pop() for pop(0))
CachePutPopLast(c, order, size, key, image) ==
    LET afterEvict ==
            IF key \in DOMAIN c
              THEN [c |-> c, order |-> RemoveFirst(order, key)]
            ELSE IF Cardinality(DOMAIN c) >= size
              THEN [c |-> DictDel(c, order[Len(order)]),
                    order |-> SubSeq(order, 1, Len(order) - 1)]
            ELSE [c |-> c, order |-> order]
    IN  [c |-> DictSet(afterEvict.c, key, image),
         order |-> Append(afterEvict.order, key)]

\* TileCache.put that tests the capacity before it looks for the key
CachePutCapacityFirst(c, order, size, key, image) ==
    LET afterEvict ==
            IF Cardinality(DOMAIN c) >= size
              THEN [c |-> DictDel(c, Head(order)), order |-> Tail(order)]
            ELSE IF key \in DOMAIN c
              THEN [c |-> c, order |-> RemoveFirst(order, key)]
            ELSE [c |-> c, order |-> order]
    IN  [c |-> DictSet(afterEvict.c, key, image),
         order |-> Append(RemoveFirst(afterEvict.order, key), key)]

\* TileCache.put that appends the key without removing its old position
CachePutNoRemove(c, order, size, key, image) ==
    LET afterEvict ==
            IF key \in DOMAIN c
              THEN [c |-> c, order |-> order]
            ELSE IF Cardinality(DOMAIN c) >= size
              THEN [c |-> DictDel(c, Head(order)), order |-> Tail(order)]
            ELSE [c |-> c, order |-> order]
    IN  [c |-> DictSet(afterEvict.c, key, image),
         order |-> Append(afterEvict.order, key)]

\* TileCache.put that never evicts (capacity test dropped)
CachePutNoEvict(c, order, size, key, image) ==
    [c |-> DictSet(c, key, image),
     order |-> Append(RemoveFirst(order, key), key)]

\* TileCache.put: the cache and access order afterwards
CachePut(c, order, size, key, image) ==
    LET afterEvict ==
            IF key \in DOMAIN c
              THEN [c |-> c, order |-> RemoveFirst(order, key)]
            ELSE IF Cardinality(DOMAIN c) >= size
              THEN [c |-> DictDel(c, Head(order)), order |-> Tail(order)]
            ELSE [c |-> c, order |-> order]
    IN  [c |-> DictSet(afterEvict.c, key, image),
         order |-> Append(afterEvict.order, key)]

\* TileCache.size
CacheSize == Cardinality(DOMAIN cache)

\* history bookkeeping: key becomes the most recently accessed one
Touch(r, key) == Append(RemoveFirst(r, key), key)

NoOp ==
    [op |-> "none", key |-> NoKey, ret |-> None, n |-> 0, fullNew |-> FALSE,
     hit |-> FALSE, afterGetHit |-> NoKey, image |-> None]

\* a direct call cache.get(key)
Get(key) ==
    /\ strategy = "none"
    /\ access_order' = CacheGetOrder(cache, access_order, key)
    /\ recency' = IF key \in DOMAIN cache THEN Touch(recency, key) ELSE recency
    /\ lastOp' = [op |-> "get", key |-> key, ret |-> CacheGetValue(cache, key),
                  n |-> 1 - lastOp.n, fullNew |-> FALSE, hit |-> key \in DOMAIN cache,
                  afterGetHit |-> NoKey, image |-> None]
    /\ UNCHANGED << max_size, cache >>
    /\ UNCHANGED dlVars
    /\ UNCHANGED extVars

\* a direct call cache.put(key, image)
Put(key, image) ==
    /\ strategy = "none"
    /\ LET r == CachePut(cache, access_order, max_size, key, image)
       IN  /\ cache' = r.c
           /\ access_order' = r.order
    /\ recency' = Touch(recency, key)
    /\ lastOp' = [op |-> "put", key |-> key, ret |-> None, n |-> 1 - lastOp.n,
                  fullNew |-> key \notin DOMAIN cache /\ CacheSize = max_size,
                  hit |-> key \in DOMAIN cache,
                  afterGetHit |-> IF lastOp.op = "get" /\ lastOp.hit
                                    THEN lastOp.key ELSE NoKey,
                  image |-> image]
    /\ UNCHANGED max_size
    /\ UNCHANGED dlVars
    /\ UNCHANGED extVars

\* a direct call cache.clear()
Clear ==
    /\ strategy = "none"
    /\ cache' = EmptyDict
    /\ access_order' = << >>
    /\ lastOp' = [op |-> "clear", key |-> NoKey, ret |-> None, n |-> 1 - lastOp.n,
                  fullNew |-> FALSE, hit |-> FALSE, afterGetHit |-> NoKey,
                  image |-> None]
    /\ UNCHANGED << max_size, recency >>
    /\ UNCHANGED dlVars
    /\ UNCHANGED extVars

\* a fetch slot no download_tile call has used yet
IdleTask ==
    [pc |-> "idle", tile |-> NoKey, attempt |-> 0, requests |-> 0, failures |-> 0,
     timer |-> 0, elapsed |-> 0, slept |-> 0, last_error |-> None,
     success |-> FALSE, from_cache |-> FALSE, error |-> None, image |-> None,
     download_time |-> 0, diskAtStart |-> FALSE, memAtStart |-> FALSE,
     afterSettled |-> FALSE]

(* -------------------------- PerformanceMonitor ------------------------- *)
\* PerformanceMonitor.stats after PerformanceMonitor() and after reset():
\* the counters the downloaders update
ZeroStats ==
    [total_downloads |-> 0, successful_downloads |-> 0, failed_downloads |-> 0,
     cache_hits |-> 0, cache_misses |-> 0]

\* update_stats that counts one whatever the value
update_stats_by_one(s, key, value) ==
    IF s = Off THEN s ELSE [s EXCEPT ![key] = @ + 1]

\* PerformanceMonitor.update_stats(key, value); a specification that leaves
\* the monitor out keeps it switched off
update_stats(s, key, value) ==
    IF s = Off THEN s ELSE [s EXCEPT ![key] = @ + value]

\* PerformanceMonitor.reset
MonitorReset(s) == IF s = Off THEN s ELSE ZeroStats

(* ---------------------------- BaseDownloader --------------------------- *)
\* validate_tile_coordinates that only looks at the zoom level
ValidateZoomOnly(x, y, z) == ~(z < 0 \/ z > MaxZoom)

\* BaseDownloader.validate_tile_coordinates
validate_tile_coordinates(x, y, z) ==
    IF z < 0 \/ z > MaxZoom THEN FALSE
    ELSE LET max_coord == Pow(2, z)
         IN  0 <= x /\ x < max_coord /\ 0 <= y /\ y < max_coord

\* load_cached_tile that consults the memory cache only
load_cached_tile_memory_only(c, order, size, d, tile) ==
    IF CacheGetValue(c, tile) # None
      THEN [image |-> CacheGetValue(c, tile), c |-> c,
            order |-> CacheGetOrder(c, order, tile), stat |-> "cache_hits"]
      ELSE [image |-> None, c |-> c, order |-> order, stat |-> "cache_misses"]

\* load_cached_tile that takes whatever the tile file holds, decodable or not
load_cached_tile_exists_only(c, order, size, d, tile) ==
    IF CacheGetValue(c, tile) # None
      THEN [image |-> CacheGetValue(c, tile), c |-> c,
            order |-> CacheGetOrder(c, order, tile), stat |-> "cache_hits"]
    ELSE IF d[tile] # "absent"
      THEN LET r == CachePut(c, order, size, tile, d[tile])
           IN  [image |-> d[tile], c |-> r.c, order |-> r.order,
                stat |-> "cache_hits"]
    ELSE [image |-> None, c |-> c, order |-> order, stat |-> "cache_misses"]

\* load_cached_tile that reads the tile file without caching the image
load_cached_tile_no_populate(c, order, size, d, tile) ==
    IF CacheGetValue(c, tile) # None
      THEN [image |-> CacheGetValue(c, tile), c |-> c,
            order |-> CacheGetOrder(c, order, tile), stat |-> "cache_hits"]
    ELSE IF d[tile] \in Images
      THEN [image |-> d[tile], c |-> c, order |-> order, stat |-> "cache_hits"]
    ELSE [image |-> None, c |-> c, order |-> order, stat |-> "cache_misses"]

\* BaseDownloader.load_cached_tile: the image returned (None on a miss), the
\* memory cache afterwards and the statistic counted
load_cached_tile(c, order, size, d, tile) ==
    IF CacheGetValue(c, tile) # None
      THEN [image |-> CacheGetValue(c, tile), c |-> c,
            order |-> CacheGetOrder(c, order, tile), stat |-> "cache_hits"]
    ELSE IF d[tile] \in Images
      THEN LET r == CachePut(c, order, size, tile, d[tile])
           IN  [image |-> d[tile], c |-> r.c, order |-> r.order,
                stat |-> "cache_hits"]
    ELSE [image |-> None, c |-> c, order |-> order, stat |-> "cache_misses"]

\* how os.makedirs / image.save can end inside save_tile; image.save is one
\* call that writes the final path and is taken to be atomic: a save that
\* raises leaves the store as it was
SaveOutcomes == {"ok", "fail"}

\* save_tile that caches the image without writing the file
SaveDiskMemoryOnly(d, tile, image, sv) == d

\* BaseDownloader.save_tile: the tile file afterwards
SaveDisk(d, tile, image, sv) ==
    IF sv = "ok" THEN [d EXCEPT ![tile] = image] ELSE d

(* ------------------------- one download attempt ------------------------ *)
\* HTTP status codes the tile provider answers with
Statuses == {200, 404, 429, 503, 403}

\* images the tile provider serves
NetImages == {"imgB"}

\* what the network does with one request
NetOutcomes ==
    { [kind |-> "timeout", status |-> 0, image_type |-> FALSE, body |-> "empty"],
      [kind |-> "connerr", status |-> 0, image_type |-> FALSE, body |-> "empty"] }
    \cup [kind : {"resp"}, status : Statuses \ {200}, image_type : {FALSE},
          body : {"garbage"}]
    \cup [kind : {"resp"}, status : {200}, image_type : BOOLEAN,
          body : {"empty", "garbage"} \cup NetImages]

\* an attempt that returns its result although save_tile raised
AttemptErrorSaveIgnored(net, sv) ==
    CASE net.kind = "timeout" -> "timeout"
      [] net.kind = "connerr" -> "connection"
      [] net.kind = "resp" /\ net.status = 404 -> "not_found"
      [] net.kind = "resp" /\ net.status = 429 -> "rate_limited"
      [] net.kind = "resp" /\ net.status >= 500 -> "server_error"
      [] net.kind = "resp" /\ net.status >= 400 /\ net.status < 500
            /\ net.status \notin {404, 429} -> "http_error"
      [] OTHER ->
            IF ~net.image_type THEN "unknown_not_image"
            ELSE IF net.body = "empty" THEN "unknown_empty"
            ELSE IF net.body = "garbage" THEN "unknown_decode"
            ELSE "ok"

\* _download_with_retry / _download_with_retry_async: "ok" when the attempt
\* returns a result, else the DownloadError it raises
AttemptError(net, sv) ==
    CASE net.kind = "timeout" -> "timeout"
      [] net.kind = "connerr" -> "connection"
      [] net.kind = "resp" /\ net.status = 404 -> "not_found"
      [] net.kind = "resp" /\ net.status = 429 -> "rate_limited"
      [] net.kind = "resp" /\ net.status >= 500 -> "server_error"
      [] net.kind = "resp" /\ net.status >= 400 /\ net.status < 500
            /\ net.status \notin {404, 429} -> "http_error"
      [] OTHER ->
            IF ~net.image_type THEN "unknown_not_image"
            ELSE IF net.body = "empty" THEN "unknown_empty"
            ELSE IF net.body = "garbage" THEN "unknown_decode"
            ELSE IF sv # "ok" THEN "unknown_save"
            ELSE "ok"

\* the attempt got as far as save_tile
ReachedSave(net) ==
    /\ net.kind = "resp" /\ net.status < 400
    /\ net.image_type /\ net.body \in NetImages

\* download_tile whose handler lets a failed save through
CaughtExceptSave(err) == err # "unknown_save"

\* download_tile: `except Exception` catches every DownloadError
Caught(err) == TRUE

\* sleeps drawn by random.uniform(*retry_wait_range), in ticks
RetryWaits == {1}

\* sleeps drawn by random.uniform(*request_interval_range), in ticks
Delays == {1}

\* range(max_retries) for range(max_retries + 1)
AttemptsOneShort(retries) == retries

\* download_tile: number of attempts, range(max_retries + 1)
Attempts(retries) == retries + 1

\* the backoff test as `attempt <= max_retries`: a sleep after the last attempt too
BackoffAfterLast(attempt, retries) == attempt <= retries

\* download_tile: a backoff sleep follows failed attempt number `attempt`
BackoffAfter(attempt, retries) == attempt < retries

\* download_time measured from the start of the last attempt
ElapsedSinceAttempt(task) == task.elapsed - task.slept

\* download_tile: time.time() - start_time
ElapsedSinceStart(task) == task.elapsed

Active(task) == task.pc \in {"waiting", "delay", "inflight", "backoff"}

HoldsPermit(task) == task.pc \in {"delay", "inflight"}

\* semaphore that lets everybody in
CanAcquireAlways(p) == TRUE

\* asyncio.Semaphore.acquire does not block
CanAcquire(p) == p > 0

\* the attempt issues its request: session.get(tile_info.url)
IssueRequest(task) == [task EXCEPT !.pc = "inflight", !.requests = @ + 1]

\* start of _download_with_retry(_async) once the permit is held: the
\* random delay of a retry, else the request
BeginAttempt(task, d) ==
    IF task.attempt > 0
      THEN [task EXCEPT !.pc = "delay", !.timer = d]
      ELSE IssueRequest(task)

\* entering an attempt: `async with self.semaphore` in the concurrent
\* strategy (one permit taken, or the task waits), straight into the attempt
\* in the sequential one
EnterAttempt(task, d) ==
    IF strategy = "async"
      THEN IF CanAcquire(permits)
             THEN [task |-> BeginAttempt(task, d), permits |-> permits - 1]
             ELSE [task |-> [task EXCEPT !.pc = "waiting"], permits |-> permits]
      ELSE [task |-> BeginAttempt(task, d), permits |-> permits]

\* a semaphore whose permits are never given back
ReleaseLeaks(p) == p

\* leaving `async with self.semaphore`: the permit goes back, also when
\* the attempt raised
Release(p) == IF strategy = "async" THEN p + 1 ELSE p

\* the calls of download_tile that can be under way: one in the sequential
\* strategy, one per task in the concurrent one
Slots == IF strategy = "sync" THEN {1} ELSE TaskIds

\* no DownloadResult is on its way to the caller
NoResultPending == \A u \in DOMAIN tasks : tasks[u].pc # "done"

\* time.sleep / asyncio.sleep returns: the clock has moved on by the time
\* slept
Slept(task) == [task EXCEPT !.elapsed = @ + task.timer, !.timer = 0]

\* download_tile returns: its locals are gone, the DownloadResult stays
Returned(task) == [task EXCEPT !.pc = "done", !.attempt = 0, !.elapsed = 0, !.timer = 0]

\* DownloadResult of a fetch served by load_cached_tile
CachedResult(task, image) ==
    Returned([task EXCEPT !.success = TRUE, !.from_cache = TRUE,
                          !.image = image, !.download_time = 0])

\* DownloadResult for a coordinate that fails validation
InvalidResult(task) ==
    Returned([task EXCEPT !.success = FALSE, !.error = "invalid"])

\* DownloadResult after the retry loop ran out; err is the DownloadError of
\* the last attempt (logged, not returned)
ExhaustedResult(task, err) ==
    Returned([task EXCEPT !.success = FALSE, !.error = "exhausted",
                          !.last_error = err,
                          !.download_time = ElapsedSinceStart(task)])

\* DownloadResult of the attempt that succeeded
SuccessResult(task, image) ==
    Returned([task EXCEPT !.success = TRUE, !.image = image,
                          !.download_time = ElapsedSinceStart(task)])

\* download_tile / download_tile_async up to its first suspension: cache
\* lookup, validation, first attempt
StartFetch(t, tile) ==
    /\ strategy \in {"sync", "async"}
    /\ t \in Slots
    /\ NoResultPending
    /\ tasks[t].pc = "idle"
    /\ LET fresh == [IdleTask EXCEPT !.tile = tile,
                                     !.diskAtStart = disk[tile] \in Images,
                                     !.memAtStart = tile \in DOMAIN cache,
                                     !.afterSettled = tile \in settled]
           hit == load_cached_tile(cache, access_order, max_size, disk, tile)
       IN  /\ cache' = hit.c
           /\ access_order' = hit.order
           /\ stats' = IF hit.image = None
                          /\ validate_tile_coordinates(tile.x, tile.y, tile.z)
                          /\ Attempts(max_retries) <= 0
                         THEN update_stats(update_stats(stats, hit.stat, 1),
                                           "failed_downloads", 1)
                         ELSE update_stats(stats, hit.stat, 1)
           /\ IF hit.image # None
                THEN /\ tasks' = [tasks EXCEPT ![t] = CachedResult(fresh, hit.image)]
                     /\ settled' = settled \cup {tile}
                     /\ UNCHANGED permits
              ELSE IF ~validate_tile_coordinates(tile.x, tile.y, tile.z)
                THEN /\ tasks' = [tasks EXCEPT ![t] = InvalidResult(fresh)]
                     /\ UNCHANGED << permits, settled >>
              ELSE IF Attempts(max_retries) <= 0
                THEN /\ tasks' = [tasks EXCEPT ![t] =
                                    [fresh EXCEPT !.pc = "done", !.error = "exhausted"]]
                     /\ UNCHANGED << permits, settled >>
              ELSE LET e == EnterAttempt(fresh, 0)
                   IN  /\ tasks' = [tasks EXCEPT ![t] = e.task]
                       /\ permits' = e.permits
                       /\ UNCHANGED settled
    /\ UNCHANGED << max_size, disk, strategy, max_retries, max_concurrency >>
    /\ UNCHANGED histVars
    /\ UNCHANGED << batch, geo, mosaic, conf, run, session >>

\* a task waiting in `async with self.semaphore` gets its permit
Acquire(t, d) ==
    /\ strategy = "async"
    /\ NoResultPending
    /\ tasks[t].pc = "waiting"
    /\ CanAcquire(permits)
    /\ permits' = permits - 1
    /\ tasks' = [tasks EXCEPT ![t] = BeginAttempt(tasks[t], d)]
    /\ UNCHANGED << max_size, cache, access_order, disk, strategy, max_retries,
                    max_concurrency, settled >>
    /\ UNCHANGED histVars
    /\ UNCHANGED extVars

\* the random delay before a retry's request is over
DelayDone(t) ==
    /\ NoResultPending
    /\ tasks[t].pc = "delay"
    /\ tasks' = [tasks EXCEPT ![t] = IssueRequest(Slept(tasks[t]))]
    /\ UNCHANGED << max_size, cache, access_order, disk, strategy, max_retries,
                    max_concurrency, permits, settled >>
    /\ UNCHANGED histVars
    /\ UNCHANGED extVars

\* the request of task t ends with outcome net; the rest of the attempt
\* (checks, decode, save_tile with outcome sv) and of the retry loop up to
\* the next sleep (backoff wait w) or the return
Response(t, net, sv, w) ==
    /\ NoResultPending
    /\ tasks[t].pc = "inflight"
    /\ LET task == tasks[t]
           err == AttemptError(net, sv)
           wait == Pow(backoff_base, task.attempt) + w
       IN  /\ disk' = IF ReachedSave(net) THEN SaveDisk(disk, task.tile, net.body, sv)
                      ELSE disk
           /\ permits' = Release(permits)
           /\ IF err = "ok"
                THEN LET r == CachePut(cache, access_order, max_size, task.tile, net.body)
                     IN  /\ cache' = r.c
                         /\ access_order' = r.order
                         /\ tasks' = [tasks EXCEPT ![t] = SuccessResult(task, net.body)]
                         /\ settled' = settled \cup {task.tile}
                         /\ stats' = update_stats(stats, "successful_downloads", 1)
              ELSE /\ UNCHANGED << cache, access_order, settled >>
                   /\ IF ~Caught(err)
                        THEN /\ tasks' = [tasks EXCEPT ![t] =
                                  [task EXCEPT !.pc = "raised", !.failures = @ + 1]]
                             /\ UNCHANGED stats
                      ELSE IF BackoffAfter(task.attempt, max_retries)
                        THEN /\ tasks' = [tasks EXCEPT ![t] =
                                  [task EXCEPT !.pc = "backoff", !.failures = @ + 1,
                                               !.timer = wait, !.slept = @ + wait]]
                             /\ UNCHANGED stats
                      ELSE IF task.attempt + 1 < Attempts(max_retries)
                        THEN /\ tasks' = [tasks EXCEPT ![t] =
                                  [task EXCEPT !.pc = "backoff", !.failures = @ + 1,
                                               !.timer = 0]]
                             /\ UNCHANGED stats
                      ELSE /\ tasks' = [tasks EXCEPT ![t] =
                                  ExhaustedResult([task EXCEPT !.failures = @ + 1], err)]
                           /\ stats' = update_stats(stats, "failed_downloads", 1)
    /\ UNCHANGED << max_size, strategy, max_retries, max_concurrency >>
    /\ UNCHANGED histVars
    /\ UNCHANGED << batch, geo, mosaic, conf, run, session >>

\* the backoff sleep is over: next iteration of the retry loop
Wake(t, d) ==
    /\ NoResultPending
    /\ tasks[t].pc = "backoff"
    /\ LET task == Slept(tasks[t])
       IN  IF task.attempt + 1 < Attempts(max_retries)
             THEN LET e == EnterAttempt([task EXCEPT !.attempt = @ + 1], d)
                  IN  /\ tasks' = [tasks EXCEPT ![t] = e.task]
                      /\ permits' = e.permits
                      /\ UNCHANGED stats
             ELSE /\ tasks' = [tasks EXCEPT ![t] = ExhaustedResult(task, None)]
                  /\ stats' = update_stats(stats, "failed_downloads", 1)
                  /\ UNCHANGED permits
    /\ UNCHANGED << max_size, cache, access_order, disk, strategy, max_retries,
                    max_concurrency, settled >>
    /\ UNCHANGED histVars
    /\ UNCHANGED << batch, geo, mosaic, conf, run, session >>

\* the DownloadResult of task t reaches the caller of download_tile; the
\* slot is free for the next call
Return(t) ==
    /\ tasks[t].pc = "done"
    /\ tasks' = [tasks EXCEPT ![t] = IdleTask]
    /\ UNCHANGED << max_size, cache, access_order, disk, strategy, max_retries,
                    max_concurrency, permits, settled >>
    /\ UNCHANGED histVars
    /\ UNCHANGED extVars

\* BaseDownloader.reset_statistics: monitor.reset() and cache.clear()
reset_statistics ==
    /\ strategy \in {"sync", "async"}
    /\ NoResultPending
    /\ strategy = "sync" => \A u \in DOMAIN tasks : ~Active(tasks[u])
    /\ cache # EmptyDict
    /\ cache' = EmptyDict
    /\ access_order' = << >>
    /\ stats' = MonitorReset(stats)
    /\ UNCHANGED << max_size >>
    /\ UNCHANGED dlVars
    /\ UNCHANGED histVars
    /\ UNCHANGED << batch, geo, mosaic, conf, run, session >>

\* the on-disk store a run starts from: at most one coordinate has a file,
\* decodable or not, left by an earlier run
InitialDisks ==
    { [t \in Tiles |-> IF t = c THEN v ELSE "absent"] :
        c \in {Tile(0, 0, 0), Tile(2, 0, 1)}, v \in {"absent", "corrupt", "imgA"} }

\* after SyncDownloader(config) / AsyncDownloader(config)
Init ==
    /\ strategy \in {"sync", "async"}
    /\ max_size \in 1..MaxCacheSize
    /\ cache = EmptyDict
    /\ access_order = << >>
    /\ recency = << >>
    /\ lastOp = NoOp
    /\ disk \in InitialDisks
    /\ max_retries \in 0..MaxRetriesBound
    /\ max_concurrency \in 1..MaxConcurrencyBound
    /\ strategy = "sync" => max_concurrency = 1
    /\ permits = IF strategy = "async" THEN max_concurrency ELSE 0
    /\ tasks = [i \in TaskIds |-> IdleTask]
    /\ settled = {}
    /\ batch = Off /\ geo = Off /\ mosaic = Off /\ conf = Off /\ run = Off
    /\ session = Off /\ stats = Off

Next ==
    \/ \E t \in TaskIds, tile \in Tiles : StartFetch(t, tile)
    \/ \E t \in TaskIds, d \in Delays : Acquire(t, d)
    \/ \E t \in TaskIds : DelayDone(t)
    \/ \E t \in TaskIds, net \in NetOutcomes, w \in RetryWaits :
          \E sv \in (IF ReachedSave(net) THEN SaveOutcomes ELSE {"ok"}) :
             Response(t, net, sv, w)
    \/ \E t \in TaskIds, d \in Delays : Wake(t, d)
    \/ \E t \in TaskIds : Return(t)
    \/ reset_statistics

Spec == Init /\ [][Next]_vars

\* a TileCache on its own, after TileCache(max_size)
CacheInit ==
    /\ max_size \in 1..MaxCacheSize
    /\ cache = EmptyDict
    /\ access_order = << >>
    /\ recency = << >>
    /\ lastOp = NoOp
    /\ disk = [t \in Tiles |-> "absent"]
    /\ strategy = "none"
    /\ max_retries = 0
    /\ max_concurrency = 1
    /\ permits = 0
    /\ tasks = [i \in TaskIds |-> IdleTask]
    /\ settled = {}
    /\ batch = Off /\ geo = Off /\ mosaic = Off /\ conf = Off /\ run = Off
    /\ session = Off /\ stats = Off

CacheNext ==
    \/ \E key \in Tiles : Get(key)
    \/ \E key \in Tiles, image \in Images : Put(key, image)
    \/ Clear

CacheSpec == CacheInit /\ [][CacheNext]_vars

(* ------------------------- TileCache properties ------------------------ *)
\* position of key k in the access history
Pos(s, k) == CHOOSE i \in 1..Len(s) : s[i] = k

\* the key of S whose most recent access (put or get hit) is the oldest
LeastRecentIn(S) == CHOOSE k \in S : \A j \in S : Pos(recency, k) <= Pos(recency, j)

\* this step is a call of the TileCache API
ApiStep(op) == lastOp'.n # lastOp.n /\ lastOp'.op = op

\* C1: on a full cache of capacity N >= 1, put of a key that is not cached
\* removes exactly the entry whose last access is the oldest, keeps every
\* other entry, and the cache then holds the new key.
C1_PutEvictsLeastRecent ==
    [][ ( /\ ApiStep("put")
          /\ lastOp'.key \notin DOMAIN cache
          /\ CacheSize = max_size )
        => /\ DOMAIN cache' = ((DOMAIN cache) \ {LeastRecentIn(DOMAIN cache)})
                                 \cup {lastOp'.key}
           /\ Cardinality(DOMAIN cache') = max_size
           /\ \A j \in (DOMAIN cache) \cap (DOMAIN cache') : cache'[j] = cache[j] ]_vars

\* C1 witness: a put of a new key into a full cache of capacity 2 has happened
C1_Witness ==
    /\ lastOp.op = "put" /\ lastOp.fullNew
    /\ max_size = 2
    /\ lastOp.key \in DOMAIN cache

\* C2: a get that hits promotes the entry: on a full cache of capacity
\* N >= 2, the put of a new key that follows a get hit of k leaves k cached
\* and evicts the least recently used of the other entries.
C2_GetHitPromotes ==
    [][ ( /\ lastOp.op = "get" /\ lastOp.hit
          /\ ApiStep("put")
          /\ lastOp'.key \notin DOMAIN cache
          /\ CacheSize = max_size
          /\ max_size >= 2 )
        => /\ lastOp.key \in DOMAIN cache'
           /\ (DOMAIN cache) \ (DOMAIN cache')
                 = {LeastRecentIn((DOMAIN cache) \ {lastOp.key})} ]_vars

\* C2 witness: a new key was put into a full cache right after a get hit,
\* and the key that was hit is still cached
C2_Witness ==
    /\ lastOp.op = "put" /\ lastOp.fullNew
    /\ lastOp.afterGetHit # NoKey
    /\ max_size >= 2
    /\ lastOp.afterGetHit \in DOMAIN cache

\* C3: size() <= N after every call; clear leaves size() = 0; a get on the
\* cleared cache misses and changes nothing, so every get misses until the
\* next put.
C3_SizeBoundedAndClear ==
    [][ /\ Cardinality(DOMAIN cache') <= max_size'
        /\ (ApiStep("clear") => Cardinality(DOMAIN cache') = 0 /\ access_order' = << >>)
        /\ (ApiStep("get") /\ CacheSize = 0
              => lastOp'.ret = None /\ ~lastOp'.hit /\ cache' = cache)
        /\ (ApiStep("get") => DOMAIN cache' = DOMAIN cache) ]_vars

\* C3 witness: a get missed on a cache that was cleared after having been full
C3_Witness ==
    /\ lastOp.op = "get" /\ ~lastOp.hit
    /\ CacheSize = 0
    /\ Len(recency) >= max_size

(* -------------------------- fetch properties --------------------------- *)
Started(task) == task.pc # "idle"

Valid(tile) == validate_tile_coordinates(tile.x, tile.y, tile.z)

\* C4: a fetch that finds a decodable tile file on disk issues no network
\* request and returns success, from_cache, download_time 0 at once, in
\* both strategies, whether or not the memory cache holds the tile.
C4_DiskHitNoNetwork ==
    \A t \in TaskIds :
        (Started(tasks[t]) /\ tasks[t].diskAtStart)
        => /\ tasks[t].pc = "done"
           /\ tasks[t].success /\ tasks[t].from_cache
           /\ tasks[t].download_time = 0
           /\ tasks[t].requests = 0
           /\ tasks[t].image \in Images

\* C4 witness: a fetch was served from the disk file while the memory cache
\* did not hold the tile
C4_Witness ==
    \E t \in TaskIds :
        /\ tasks[t].pc = "done" /\ tasks[t].diskAtStart /\ ~tasks[t].memAtStart
        /\ tasks[t].from_cache /\ tasks[t].requests = 0

\* C5: once a fetch of a coordinate has returned success, every later fetch
\* of it is served from cache without a network request, whatever happened
\* to the memory cache in between.
C5_SuccessIsDurable ==
    \A t \in TaskIds :
        (Started(tasks[t]) /\ tasks[t].afterSettled)
        => /\ tasks[t].pc = "done"
           /\ tasks[t].success /\ tasks[t].from_cache
           /\ tasks[t].requests = 0

\* C5 witness: a fetch of a coordinate fetched before was served from the
\* disk file after the memory cache had lost the tile (eviction or clear)
C5_Witness ==
    \E t \in TaskIds :
        /\ tasks[t].pc = "done" /\ tasks[t].afterSettled /\ ~tasks[t].memAtStart
        /\ tasks[t].from_cache /\ tasks[t].requests = 0
        /\ Valid(tasks[t].tile)

\* z outside 0..20, or x or y outside [0, 2^z)
OutOfRange(tile) ==
    \/ tile.z \notin 0..20
    \/ tile.z \in 0..20 /\ ( tile.x \notin 0..(Pow(2, tile.z) - 1)
                            \/ tile.y \notin 0..(Pow(2, tile.z) - 1) )

\* C6: a coordinate that fails validation never gets a network request nor
\* a backoff sleep: its fetch returns without entering the retry loop.
C6_InvalidNeverRequested ==
    \A t \in TaskIds :
        (Started(tasks[t]) /\ OutOfRange(tasks[t].tile))
        => /\ tasks[t].requests = 0
           /\ tasks[t].slept = 0
           /\ tasks[t].pc = "done"
           /\ (~tasks[t].from_cache => ~tasks[t].success /\ tasks[t].error = "invalid")

\* C6 witness: a fetch of an invalid coordinate returned its failure
C6_Witness ==
    \E t \in TaskIds :
        /\ tasks[t].pc = "done" /\ OutOfRange(tasks[t].tile)
        /\ ~tasks[t].success /\ tasks[t].error = "invalid"

\* C7: a fetch issues at most max_retries + 1 requests, one per attempt;
\* when every attempt has failed it has issued exactly max_retries + 1 and
\* returns success = false.
C7_AtMostRetriesPlusOne ==
    \A t \in TaskIds :
        /\ tasks[t].requests <= max_retries + 1
        /\ (tasks[t].pc = "done" /\ ~tasks[t].success /\ tasks[t].error # "invalid")
              => /\ tasks[t].requests = max_retries + 1
                 /\ tasks[t].failures = tasks[t].requests
        /\ (Started(tasks[t]) /\ tasks[t].failures = max_retries + 1)
              => tasks[t].pc = "done" /\ ~tasks[t].success

\* C7 witness: three attempts failed, the last one on an undecodable body
C7_Witness ==
    \E t \in TaskIds :
        /\ tasks[t].pc = "done" /\ ~tasks[t].success
        /\ max_retries = 2 /\ tasks[t].requests = 3
        /\ tasks[t].last_error = "unknown_decode"

\* C8: a fetch whose first k <= max_retries attempts fail and whose next
\* attempt succeeds returns success after exactly k + 1 requests, and its
\* download_time is at least the sum of the k backoff sleeps.
C8_RetryThenSuccess ==
    \A t \in TaskIds :
        (tasks[t].pc = "done" /\ tasks[t].success /\ ~tasks[t].from_cache)
        => /\ tasks[t].requests = tasks[t].failures + 1
           /\ tasks[t].failures <= max_retries
           /\ tasks[t].download_time >= tasks[t].slept
           /\ (tasks[t].failures > 0 => tasks[t].slept > 0)

\* C8 witness: success on the third attempt, after two backoff sleeps
C8_Witness ==
    \E t \in TaskIds :
        /\ tasks[t].pc = "done" /\ tasks[t].success /\ ~tasks[t].from_cache
        /\ tasks[t].failures = 2 /\ tasks[t].requests = 3
        /\ tasks[t].slept >= 3

\* C9: no tile-level failure leaves download_tile as an exception: a fetch
\* that fails returns a DownloadResult with success = false and an error.
C9_NeverRaises ==
    \A t \in TaskIds :
        /\ tasks[t].pc # "raised"
        /\ (tasks[t].pc = "done" /\ ~tasks[t].success) => tasks[t].error # None

\* C9 witness: the retry loop ran out on a failed save_tile and the fetch
\* returned its failure
C9_Witness ==
    \E t \in TaskIds :
        /\ tasks[t].pc = "done" /\ ~tasks[t].success
        /\ tasks[t].error = "exhausted"
        /\ tasks[t].last_error = "unknown_save"

\* fetches between acquiring and releasing the semaphore
Holders == { t \in TaskIds : HoldsPermit(tasks[t]) }

\* C10: in the concurrent strategy at most max_concurrency fetches hold a
\* permit at any time, and every permit not held is back in the semaphore
\* (released on success and on every failure path).
C10_PermitsBounded ==
    strategy = "async"
    => /\ Cardinality(Holders) <= max_concurrency
       /\ permits >= 0
       /\ permits + Cardinality(Holders) = max_concurrency

\* C10 witness: every permit is taken and another fetch waits for one, after
\* a failed attempt has given its permit back
C10_Witness ==
    /\ strategy = "async"
    /\ permits = 0
    /\ \E t, u \in TaskIds :
          /\ tasks[t].pc = "waiting"
          /\ HoldsPermit(tasks[u]) /\ tasks[u].failures > 0

(* --------------------------- download_tiles ----------------------------- *)
\* coordinates a batch is made of: a valid one that may have a tile file, a
\* valid one that has none, one that fails validation
BatchTiles == { Tile(0, 0, 0), Tile(1, 0, 1), Tile(0, 0, 21) }

\* the tiles argument of download_tiles: lists of one to MaxTasks
\* coordinates, repeated ones included
BatchLists == UNION { [1..n -> BatchTiles] : n \in 1..MaxTasks }

\* what the network does with a request of a batch
BatchNetOutcomes ==
    { net \in NetOutcomes :
        \/ net.kind = "timeout"
        \/ net.kind = "resp" /\ net.status = 200 /\ net.image_type
             /\ net.body \in {"garbage"} \cup NetImages }

\* the entry of `results` made for a DownloadResult
ResultOf(task) ==
    [tile |-> task.tile, success |-> task.success, from_cache |-> task.from_cache]

\* download_tiles_async: the result recorded for a task that raised
PlaceholderResult == [tile |-> Tile(0, 0, 0), success |-> FALSE, from_cache |-> FALSE]

\* download_tiles: the result recorded for a download_tile call that raised
UnexpectedResult(tile) == [tile |-> tile, success |-> FALSE, from_cache |-> FALSE]

\* results.append that drops the results of failed tiles
CollectIfSuccess(results, r) == IF r.success THEN Append(results, r) ELSE results

\* results.append(result)
Collect(results, r) == Append(results, r)

\* a fetch that is abandoned: KeyboardInterrupt unwinds download_tile,
\* cancellation unwinds download_tile_async
Cancelled(task) ==
    IF task.pc \in {"idle", "waiting", "delay", "inflight", "backoff"}
      THEN [task EXCEPT !.pc = "cancelled"]
      ELSE task

\* permits given back by the tasks cancelled inside `async with self.semaphore`
PermitsAfterCancel ==
    permits + Cardinality({ t \in TaskIds : HoldsPermit(tasks[t]) })

BatchRunning == batch.state = "running"

\* download_tiles calls download_tile for the next tile of the list
\* (sequential), or the task created for tile i gets to run (concurrent)
BatchFetch(i) ==
    /\ BatchRunning
    /\ i \in 1..Len(batch.tiles)
    /\ strategy = "sync" => i = batch.next
    /\ StartFetch(IF strategy = "sync" THEN 1 ELSE i, batch.tiles[i])

\* the steps of the fetches of a batch
BatchAcquire(t, d) == BatchRunning /\ Acquire(t, d)
BatchDelayDone(t) == BatchRunning /\ DelayDone(t)
BatchResponse(t, net, sv, w) == BatchRunning /\ Response(t, net, sv, w)
BatchWake(t, d) == BatchRunning /\ Wake(t, d)

\* SyncDownloader.download_tiles: download_tile has returned (or raised);
\* the result is appended; the loop sleeps add_random_delay before the next
\* tile, or ends and the results are returned
BatchCollectSync ==
    /\ strategy = "sync"
    /\ BatchRunning
    /\ tasks[1].pc \in {"done", "raised"}
    /\ LET r == IF tasks[1].pc = "done" THEN ResultOf(tasks[1])
                ELSE UnexpectedResult(batch.tiles[batch.next])
           last == batch.next = Len(batch.tiles)
       IN  batch' = [batch EXCEPT
                       !.results = Collect(@, r),
                       !.next = @ + 1,
                       !.state = IF last THEN "returned"
                                 ELSE IF tasks[1].pc = "done" THEN "gap"
                                 ELSE "running"]
    /\ tasks' = [tasks EXCEPT ![1] = IdleTask]
    /\ UNCHANGED << max_size, cache, access_order, disk, strategy, max_retries,
                    max_concurrency, permits, settled >>
    /\ UNCHANGED histVars
    /\ UNCHANGED << geo, mosaic, conf, run, session, stats >>

\* SyncDownloader.download_tiles: add_random_delay between two tiles is over
BatchGapDone ==
    /\ batch.state = "gap"
    /\ batch' = [batch EXCEPT !.state = "running"]
    /\ UNCHANGED << max_size, cache, access_order, disk, strategy, max_retries,
                    max_concurrency, permits, tasks, settled >>
    /\ UNCHANGED histVars
    /\ UNCHANGED << geo, mosaic, conf, run, session, stats >>

\* AsyncDownloader.download_tiles_async: asyncio.as_completed hands over a
\* finished task; its result (a placeholder when it raised) is appended;
\* after the last one the results are returned
BatchCollectAsync(t) ==
    /\ strategy = "async"
    /\ BatchRunning
    /\ tasks[t].pc \in {"done", "raised"}
    /\ LET r == IF tasks[t].pc = "done" THEN ResultOf(tasks[t]) ELSE PlaceholderResult
           n == Cardinality({ u \in 1..Len(batch.tiles) : tasks[u].pc = "collected" })
       IN  batch' = [batch EXCEPT
                       !.results = Collect(@, r),
                       !.state = IF n + 1 = Len(batch.tiles) THEN "returned"
                                 ELSE "running"]
    /\ tasks' = [tasks EXCEPT ![t] = [@ EXCEPT !.pc = "collected"]]
    /\ UNCHANGED << max_size, cache, access_order, disk, strategy, max_retries,
                    max_concurrency, permits, settled >>
    /\ UNCHANGED histVars
    /\ UNCHANGED << geo, mosaic, conf, run, session, stats >>

\* where a KeyboardInterrupt surfaces.  Sequential: inside the try block of
\* the loop (download_tile, add_random_delay), where `except
\* KeyboardInterrupt: break` catches it.  Concurrent: download_tiles runs
\* the coroutine under asyncio.run; the interrupt surfaces in the coroutine
\* as KeyboardInterrupt only when it arrives while the coroutine's own code
\* runs ("handler"); when it arrives while the event loop waits or a task
\* runs, it ends the loop's run, and asyncio.run (from Python 3.11 on: by
\* cancelling the coroutine, whose CancelledError neither `except Exception`
\* nor `except KeyboardInterrupt` catches) cancels the tasks and raises
\* KeyboardInterrupt to the caller of download_tiles ("caller")
InterruptSites == IF strategy = "sync" THEN {"handler"} ELSE {"handler", "caller"}

\* an interrupt (SIGINT) during the batch
Interrupt(site) ==
    /\ batch.state \in {"running", "gap"}
    /\ NoResultPending
    /\ site \in InterruptSites
    /\ batch' = [batch EXCEPT !.interrupted = TRUE,
                              !.state = IF site = "handler" THEN "returned" ELSE "raised"]
    /\ tasks' = [t \in TaskIds |-> Cancelled(tasks[t])]
    /\ permits' = IF strategy = "async" THEN PermitsAfterCancel ELSE permits
    /\ UNCHANGED << max_size, cache, access_order, disk, strategy, max_retries,
                    max_concurrency, settled >>
    /\ UNCHANGED histVars
    /\ UNCHANGED << geo, mosaic, conf, run, session, stats >>

\* a downloader and the call download_tiles(tiles)
BatchInit ==
    /\ strategy \in {"sync", "async"}
    /\ max_size = MaxCacheSize
    /\ cache = EmptyDict
    /\ access_order = << >>
    /\ recency = << >>
    /\ lastOp = NoOp
    /\ disk \in { d \in InitialDisks : d[Tile(2, 0, 1)] = "absent" /\ d[Tile(0, 0, 0)] # "corrupt" }
    /\ max_retries \in 0..1
    /\ max_concurrency \in 1..MaxConcurrencyBound
    /\ strategy = "sync" => max_concurrency = 1
    /\ permits = IF strategy = "async" THEN max_concurrency ELSE 0
    /\ tasks = [i \in TaskIds |-> IdleTask]
    /\ settled = {}
    /\ batch \in [state : {"running"}, tiles : BatchLists, results : {<< >>},
                  next : {1}, interrupted : {FALSE}]
    /\ geo = Off /\ mosaic = Off /\ conf = Off /\ run = Off
    /\ session = Off /\ stats = Off

BatchNext ==
    \/ \E i \in TaskIds : BatchFetch(i)
    \/ \E t \in TaskIds, d \in Delays : BatchAcquire(t, d)
    \/ \E t \in TaskIds : BatchDelayDone(t)
    \/ \E t \in TaskIds, net \in BatchNetOutcomes, w \in RetryWaits :
          \E sv \in (IF ReachedSave(net) THEN SaveOutcomes ELSE {"ok"}) :
             BatchResponse(t, net, sv, w)
    \/ \E t \in TaskIds, d \in Delays : BatchWake(t, d)
    \/ BatchCollectSync
    \/ BatchGapDone
    \/ \E t \in TaskIds : BatchCollectAsync(t)
    \/ \E site \in {"handler", "caller"} : Interrupt(site)

BatchSpec == BatchInit /\ [][BatchNext]_vars

(* ------------------------ download_tiles properties --------------------- *)
\* number of entries of list s (records with a tile field) for coordinate c
CountOf(s, c) == Cardinality({ i \in 1..Len(s) : s[i].tile = c })

\* number of times coordinate c is in the submitted list
Submitted(c) == Cardinality({ i \in 1..Len(batch.tiles) : batch.tiles[i] = c })

\* C11: without an interrupt download_tiles returns one result per submitted
\* tile: as many results as tiles, the same coordinates with the same
\* multiplicities, whichever tiles fail; in the sequential strategy the
\* results are in submission order.
C11_OneResultPerTile ==
    (batch.state = "returned" /\ ~batch.interrupted)
    => /\ Len(batch.results) = Len(batch.tiles)
       /\ \A c \in BatchTiles : CountOf(batch.results, c) = Submitted(c)
       /\ strategy = "sync"
            => \A i \in 1..Len(batch.tiles) : batch.results[i].tile = batch.tiles[i]

\* C11 witness: a batch returned with a failed tile followed by a successful
\* one
C11_Witness ==
    /\ batch.state = "returned" /\ ~batch.interrupted
    /\ Len(batch.results) >= 2
    /\ ~batch.results[1].success
    /\ batch.results[2].success

\* the results are those of the first tiles of the list, in order
IsPrefix ==
    /\ Len(batch.results) <= Len(batch.tiles)
    /\ \A i \in 1..Len(batch.results) : batch.results[i].tile = batch.tiles[i]

\* C12: after an interrupt no fetch goes on, no exception has reached the
\* caller of download_tiles, the results collected so far are what it
\* returns, and in the sequential strategy they are the results of a prefix
\* of the submitted tiles, in order.
C12_InterruptReturnsPartial ==
    batch.interrupted
    => /\ batch.state = "returned"
       /\ \A t \in TaskIds : ~Active(tasks[t])
       /\ Len(batch.results) <= Len(batch.tiles)
       /\ strategy = "sync" => IsPrefix

(* ------------------------- TileMerger.merge_tiles ----------------------- *)
\* TileMerger.tile_size
tile_size == 256

\* largest grid_size // 2 of the mosaics built
MaxHalfGrid == 1

\* longest download_results list handed to merge_tiles
MaxResults == 2

\* odd grid sizes
GridSizes == { 2 * h + 1 : h \in 0..MaxHalfGrid }

\* centre tile of the mosaics built
MergeCenter == Tile(4, 4, 4)

\* coordinates the download results are for: three of the block around the
\* centre and one next to it
MergeCoords ==
    { Tile(MergeCenter.x + d[1], MergeCenter.y + d[2], MergeCenter.z) :
        d \in { <<-1, -1>>, <<0, 0>>, <<1, 0>>, <<2, 0>> } }

\* a DownloadResult as merge_tiles reads it: tile_info, success, image
MergeResults ==
    [tile : MergeCoords, success : {FALSE}, image : {None}]
    \cup [tile : MergeCoords, success : {TRUE}, image : Images]

\* download_results lists: what download_tiles returns for the tile set of
\* a point, whole or in part, in any order; the tile set holds a coordinate
\* once, so a list holds one result per coordinate
MergeInputs ==
    UNION { { r \in [1..n -> MergeResults] :
                \A i, j \in 1..n : i # j => r[i].tile # r[j].tile } :
            n \in 0..MaxResults }

\* width and height taken from half_grid, the centre column forgotten
OutputSizeFromHalf(grid_size) == 2 * (grid_size \div 2) * tile_size

\* merge_tiles: output_width and output_height
OutputSize(grid_size) == grid_size * tile_size

\* merge_tiles: tile_map.get((x, y)) after the loop that fills tile_map from
\* the successful results, a later result replacing an earlier one
TileMapGet(results, x, y) ==
    LET S == { i \in 1..Len(results) :
                 /\ results[i].success /\ results[i].image # None
                 /\ results[i].tile.x = x /\ results[i].tile.y = y }
    IN  IF S = {} THEN None
        ELSE results[CHOOSE i \in S : \A j \in S : j <= i].image

\* the tile for a cell taken by its position in the list
CellImageByPosition(results, start_x, start_y, grid_size, grid_x, grid_y) ==
    LET i == grid_y * grid_size + grid_x + 1
    IN  IF i \in 1..Len(results) /\ results[i].success THEN results[i].image
        ELSE None

\* merge_tiles: tile_image of the cell (grid_x, grid_y)
CellImage(results, start_x, start_y, grid_size, grid_x, grid_y) ==
    TileMapGet(results, start_x + grid_x, start_y + grid_y)

\* the paste position with column and row swapped
PasteAtTransposed(grid_x, grid_y) == << grid_y * tile_size, grid_x * tile_size >>

\* merge_tiles: (pixel_x, pixel_y) of the cell (grid_x, grid_y)
PasteAt(grid_x, grid_y) == << grid_x * tile_size, grid_y * tile_size >>

\* TileMerger.merge_tiles: the merged image, as its size and what is pasted
\* at the pixel origin of every cell (a tile, or the grey "MISSING" tile);
\* with it the calls of paste in the order of the loops (grid_y outer,
\* grid_x inner), successful_tiles and missing_tiles
merge_tiles(download_results, grid_size, center_tile) ==
    LET half_grid == grid_size \div 2
        start_x == center_tile.x - half_grid
        start_y == center_tile.y - half_grid
        origin(grid_x, grid_y) == PasteAt(grid_x, grid_y)
        cells == { << grid_x, grid_y >> : grid_x \in 0..(grid_size - 1),
                                          grid_y \in 0..(grid_size - 1) }
        content(c) ==
            LET tile_image == CellImage(download_results, start_x, start_y,
                                        grid_size, c[1], c[2])
            IN  IF tile_image # None THEN tile_image ELSE "MISSING"
        cell(k) == << (k - 1) % grid_size, (k - 1) \div grid_size >>
        pastes == [ k \in 1..(grid_size * grid_size) |->
                      [ at |-> origin(cell(k)[1], cell(k)[2]),
                        content |-> content(cell(k)),
                        tile |-> << start_x + cell(k)[1], start_y + cell(k)[2] >> ] ]
        missing(p) == p.content = "MISSING"
        coord(p) == p.tile
    IN  [ width |-> OutputSize(grid_size),
          height |-> OutputSize(grid_size),
          pasted |-> [ o \in { origin(c[1], c[2]) : c \in cells } |->
                         content(CHOOSE c \in cells : origin(c[1], c[2]) = o) ],
          pastes |-> pastes,
          successful_tiles |->
              Cardinality({ k \in DOMAIN pastes : ~missing(pastes[k]) }),
          missing_tiles |->
              LET m == SelectSeq(pastes, missing)
              IN  [ k \in 1..Len(m) |-> coord(m[k]) ] ]

\* the call merge_tiles(download_results, grid_size, center_tile)
MergeTiles ==
    /\ mosaic.state = "args"
    /\ mosaic' = [mosaic EXCEPT
                    !.state = "merged",
                    !.image = merge_tiles(mosaic.download_results, mosaic.grid_size,
                                          mosaic.center_tile)]
    /\ UNCHANGED << max_size, cache, access_order, disk, strategy, max_retries,
                    max_concurrency, permits, tasks, settled >>
    /\ UNCHANGED histVars
    /\ UNCHANGED << batch, geo, conf, run, session, stats >>

\* the arguments of a call of merge_tiles
MergeInit ==
    /\ max_size = 1
    /\ cache = EmptyDict
    /\ access_order = << >>
    /\ recency = << >>
    /\ lastOp = NoOp
    /\ disk = [t \in Tiles |-> "absent"]
    /\ strategy = "none"
    /\ max_retries = 0
    /\ max_concurrency = 1
    /\ permits = 0
    /\ tasks = [i \in TaskIds |-> IdleTask]
    /\ settled = {}
    /\ mosaic \in [state : {"args"}, download_results : MergeInputs,
                   grid_size : GridSizes, center_tile : {MergeCenter},
                   image : {None}]
    /\ batch = Off /\ geo = Off /\ conf = Off /\ run = Off
    /\ session = Off /\ stats = Off

MergeNext == MergeTiles

MergeSpec == MergeInit /\ [][MergeNext]_vars

(* -------------------------- merge_tiles properties ---------------------- *)
\* C13: for every odd grid size g and every list of download results (all
\* tiles, some, none) the merged image is g*256 by g*256 pixels, and a tile
\* or a placeholder is pasted at each of the g*g cell origins inside it.
C13_MosaicSize ==
    mosaic.state = "merged"
    => /\ mosaic.image.width = mosaic.grid_size * 256
       /\ mosaic.image.height = mosaic.grid_size * 256
       /\ DOMAIN mosaic.image.pasted
            = { << i * 256, j * 256 >> : i \in 0..(mosaic.grid_size - 1),
                                         j \in 0..(mosaic.grid_size - 1) }
       /\ \A o \in DOMAIN mosaic.image.pasted :
            o[1] + 256 <= mosaic.image.width /\ o[2] + 256 <= mosaic.image.height

\* C13 witness: a 3 x 3 mosaic was built from a list without any successful
\* result
C13_Witness ==
    /\ mosaic.state = "merged" /\ mosaic.grid_size = 3
    /\ \A i \in 1..Len(mosaic.download_results) : ~mosaic.download_results[i].success
    /\ mosaic.image.width = 768

\* download_results reordered by the permutation p of its indices
Permuted(results, p) == [i \in 1..Len(results) |-> results[p[i]]]

\* what belongs at the cell whose top-left tile offset is (gx, gy): the image
\* of the successful result for that absolute coordinate, if there is one
Expected(gx, gy) ==
    LET x == mosaic.center_tile.x - (mosaic.grid_size \div 2) + gx
        y == mosaic.center_tile.y - (mosaic.grid_size \div 2) + gy
        S == { i \in 1..Len(mosaic.download_results) :
                 /\ mosaic.download_results[i].success
                 /\ mosaic.download_results[i].tile.x = x
                 /\ mosaic.download_results[i].tile.y = y }
    IN  IF S = {} THEN "MISSING"
        ELSE mosaic.download_results[CHOOSE i \in S : TRUE].image

MaxGeoZoom == 2

\* positions are kept in fixed point: SubTile steps to a tile
SubTile == 2

\* a point is given by its Web Mercator position at the zoom level of the
\* run, the value _geo_to_tile_float computes from (lon, lat):
\*   x = (lon + 180) / 360 * 2^z, from 0 (lon = -180) to 2^z (lon = 180);
\*   y = (1 - asinh(tan(lat)) / pi) / 2 * 2^z, inside [0, 2^z] for
\*       |lat| <= 85.0511, negative north of that, above 2^z south of it.
\* GeoPoint.validate accepts every lon in [-180, 180] and lat in [-90, 90]
PointXs(zoom) == 0..(Pow(2, zoom) * SubTile)
PointYs(zoom) == (-SubTile)..(Pow(2, zoom) * SubTile + SubTile)

\* math.floor of the fixed-point position p, in tiles
Floor(p) == IF p >= 0 THEN p \div SubTile ELSE -((-p + SubTile - 1) \div SubTile)

\* int(): truncation towards zero
IntTrunc(p) == IF p >= 0 THEN p \div SubTile ELSE -((-p) \div SubTile)

\* mercantile.tile, one coordinate: releases from 1.1 on clamp a position
\* outside the map to the first or last tile, earlier ones take the floor
mercantile_tile(p, zoom, lib) ==
    IF lib = "clamp"
      THEN IF p <= 0 THEN 0
           ELSE IF p >= Pow(2, zoom) * SubTile THEN Pow(2, zoom) - 1
           ELSE Floor(p)
      ELSE Floor(p)

\* range(-half, half): the last row and column of the block left out
OffsetsOpen(half) == (-half)..(half - 1)

\* calculate_tiles_for_point: range(-half, half + 1)
Offsets(half) == (-half)..half

\* calculate_tiles_for_point: 0 <= x < max_coord and 0 <= y < max_coord
InMap(x, y, zoom) ==
    LET max_coord == Pow(2, zoom)
    IN  0 <= x /\ x < max_coord /\ 0 <= y /\ y < max_coord

\* the loop `for dx in offs: for dy in offs:`, as the list of (dx, dy) in
\* loop order
LoopPairs(offs) ==
    LET m == Cardinality(offs)
        lo == CHOOSE a \in offs : \A b \in offs : a <= b
    IN  [k \in 1..(m * m) |-> << lo + ((k - 1) \div m), lo + ((k - 1) % m) >>]

\* BaseDownloader.calculate_tiles_for_point, from the centre tile on
calculate_tiles_for_point(cx, cy, zoom, grid_size) ==
    LET half == grid_size \div 2
        keep(d) == InMap(cx + d[1], cy + d[2], zoom)
        pairs == SelectSeq(LoopPairs(Offsets(half)), keep)
    IN  [i \in 1..Len(pairs) |-> Tile(cx + pairs[i][1], cy + pairs[i][2], zoom)]

\* ImageProcessor._geo_to_pixel, one coordinate: (fractional tile position -
\* first tile of the grid) * 256
geo_to_pixel(p, center, grid_size) ==
    LET half_grid == grid_size \div 2
        start_tile == center - half_grid
    IN  ((p - start_tile * SubTile) * 256) \div SubTile

\* ImageProcessor._create_image_metadata: the two tile coordinates handed to
\* _tile_to_geo for the bounds; (min_lon, max_lat) is the north-west corner
\* of tile top_left, (max_lon, min_lat) the north-west corner of tile
\* bottom_right (_tile_to_geo grows with x in longitude and falls with y in
\* latitude, so the bounds in tile units are these two corners)
BoundsCorners(center_tile, grid_size) ==
    LET half_grid == grid_size \div 2
    IN  [ top_left |-> << center_tile.x - half_grid, center_tile.y - half_grid >>,
          bottom_right |-> << center_tile.x + half_grid, center_tile.y + half_grid >> ]

\* the downloader computes the tile set of the point
CalculateTiles ==
    /\ geo.state = "point"
    /\ ~geo.calculated
    /\ LET cx == mercantile_tile(geo.px, geo.zoom, geo.lib)
           cy == mercantile_tile(geo.py, geo.zoom, geo.lib)
       IN  geo' = [geo EXCEPT
                     !.calculated = TRUE,
                     !.center = Tile(cx, cy, geo.zoom),
                     !.tiles = calculate_tiles_for_point(cx, cy, geo.zoom, geo.grid_size)]
    /\ UNCHANGED << max_size, cache, access_order, disk, strategy, max_retries,
                    max_concurrency, permits, tasks, settled >>
    /\ UNCHANGED histVars
    /\ UNCHANGED << batch, mosaic, conf, run, session, stats >>

\* ImageProcessor.process_point_image: the centre tile by _geo_to_tile
\* (int() of the fractional position), the pixel position of the point by
\* _geo_to_pixel and the bounds of the metadata by _create_image_metadata
GeoToPixel ==
    /\ geo.state = "point"
    /\ ~geo.placed
    /\ LET cx == IntTrunc(geo.px)
           cy == IntTrunc(geo.py)
       IN  geo' = [geo EXCEPT
                     !.placed = TRUE,
                     !.center_tile = Tile(cx, cy, geo.zoom),
                     !.pixel = [x |-> geo_to_pixel(geo.px, cx, geo.grid_size),
                                y |-> geo_to_pixel(geo.py, cy, geo.grid_size)],
                     !.bounds = BoundsCorners(Tile(cx, cy, geo.zoom), geo.grid_size)]
    /\ UNCHANGED << max_size, cache, access_order, disk, strategy, max_retries,
                    max_concurrency, permits, tasks, settled >>
    /\ UNCHANGED histVars
    /\ UNCHANGED << batch, mosaic, conf, run, session, stats >>

\* a valid point, a zoom level and an odd grid size
GeoInit ==
    /\ max_size = 1
    /\ cache = EmptyDict
    /\ access_order = << >>
    /\ recency = << >>
    /\ lastOp = NoOp
    /\ disk = [t \in Tiles |-> "absent"]
    /\ strategy = "none"
    /\ max_retries = 0
    /\ max_concurrency = 1
    /\ permits = 0
    /\ tasks = [i \in TaskIds |-> IdleTask]
    /\ settled = {}
    /\ \E zoom \in 1..MaxGeoZoom :
          geo \in [state : {"point"}, zoom : {zoom}, grid_size : GridSizes,
                   px : PointXs(zoom), py : PointYs(zoom), lib : {"clamp", "floor"},
                   calculated : {FALSE}, center : {NoKey}, tiles : {<< >>},
                   placed : {FALSE}, center_tile : {NoKey},
                   pixel : {[x |-> 0, y |-> 0]},
                   bounds : {[top_left |-> << 0, 0 >>, bottom_right |-> << 0, 0 >>]}]
    /\ batch = Off /\ mosaic = Off /\ conf = Off /\ run = Off
    /\ session = Off /\ stats = Off

GeoNext ==
    \/ CalculateTiles
    \/ GeoToPixel

GeoSpec == GeoInit /\ [][GeoNext]_vars

(* -------------------- tile set and pixel properties --------------------- *)
\* the coordinates of the grid_size x grid_size block around tile (cx, cy)
Block(cx, cy, zoom, grid_size) ==
    { Tile(cx + dx, cy + dy, zoom) :
        dx \in (-(grid_size \div 2))..(grid_size \div 2),
        dy \in (-(grid_size \div 2))..(grid_size \div 2) }

\* the point lies inside the map
PointInMap ==
    /\ 0 <= geo.px /\ geo.px < Pow(2, geo.zoom) * SubTile
    /\ 0 <= geo.py /\ geo.py < Pow(2, geo.zoom) * SubTile

\* the tile the point lies in
ContainingTile == Tile(Floor(geo.px), Floor(geo.py), geo.zoom)

TileSet == { geo.tiles[i] : i \in 1..Len(geo.tiles) }

Distinct(s) == \A i, j \in 1..Len(s) : i # j => s[i] # s[j]

\* C15 as claimed: the tile set of a point is made of exactly g*g pairwise
\* distinct coordinates, the g x g block around the tile containing the
\* point, all of them valid.
C15_ExactlyGridSquared ==
    geo.calculated
    => /\ Len(geo.tiles) = geo.grid_size * geo.grid_size
       /\ Distinct(geo.tiles)
       /\ PointInMap => TileSet = Block(ContainingTile.x, ContainingTile.y,
                                        geo.zoom, geo.grid_size)
       /\ \A t \in TileSet : ~OutOfRange(t)

\* C15 amended: the tile set is made of the pairwise distinct valid
\* coordinates of the g x g block around the centre tile, which is the tile
\* containing the point when the point lies inside the map: g*g of them
\* when the block lies inside the map, fewer when it crosses the border.
C15_ValidPartOfBlock ==
    geo.calculated
    => /\ Distinct(geo.tiles)
       /\ PointInMap => geo.center = ContainingTile
       /\ TileSet = { t \in Block(geo.center.x, geo.center.y, geo.zoom, geo.grid_size) :
                        ~OutOfRange(t) }
       /\ Len(geo.tiles) <= geo.grid_size * geo.grid_size
       /\ (Len(geo.tiles) = geo.grid_size * geo.grid_size)
            <=> \A t \in Block(geo.center.x, geo.center.y, geo.zoom, geo.grid_size) :
                   ~OutOfRange(t)

\* C15 witness: at zoom 2 a point in tile (1, 2) got the whole 3 x 3 block
C15_Witness ==
    /\ geo.calculated
    /\ geo.zoom = 2 /\ geo.grid_size = 3
    /\ geo.center = Tile(1, 2, 2)
    /\ Len(geo.tiles) = 9

\* C16: the pixel position of a point in its mosaic is (fractional tile
\* position - top-left tile of the grid) * 256 and lies inside the mosaic:
\* 0 <= pixel_x < g*256 and 0 <= pixel_y < g*256.
C16_PixelInsideMosaic ==
    geo.placed
    => LET left == geo.center_tile.x - (geo.grid_size \div 2)
           top == geo.center_tile.y - (geo.grid_size \div 2)
       IN  /\ geo.pixel.x * SubTile = (geo.px - left * SubTile) * 256
           /\ geo.pixel.y * SubTile = (geo.py - top * SubTile) * 256
           /\ 0 <= geo.pixel.x /\ geo.pixel.x < geo.grid_size * 256
           /\ 0 <= geo.pixel.y /\ geo.pixel.y < geo.grid_size * 256

(* ----------------------- DataProcessor._process_points ------------------ *)
\* longest list of points a run processes
MaxPoints == 2

\* zoom level of the runs
RunZoom == 2

\* the methods a downloader made by DownloaderFactory has (BaseDownloader
\* and its two subclasses)
DownloaderMethods ==
    { "generate_tile_url", "generate_tile_path", "create_tile_info",
      "calculate_tiles_for_point", "load_cached_tile", "save_tile",
      "add_random_delay", "validate_tile_coordinates", "get_statistics",
      "reset_statistics", "download_tile", "download_tiles" }

\* the method DataProcessor._calculate_tiles_for_point calls on it
CalledTileMethod == "calculate_tiles_around_point"

\* centre tiles of the points of a run
RunCentres == { Tile(1, 1, RunZoom), Tile(2, 1, RunZoom), Tile(3, 3, RunZoom) }

\* the lists of points of a run, each point given by the tile it lies in;
\* several points may lie in one tile
RunPoints == UNION { [1..n -> RunCentres] : n \in 1..MaxPoints }

\* the tiles the provider serves during the run: none, one tile that lies
\* in the blocks of the first two centres, one that lies in the block of
\* the first only, all
ServedChoices ==
    { {}, {Tile(1, 1, RunZoom)}, {Tile(0, 0, RunZoom)},
      { Tile(x, y, RunZoom) : x \in 0..3, y \in 0..3 } }

\* _process_single_point returning None
NoMetadata == [ok |-> FALSE, point_index |-> 0, center |-> NoKey, records |-> {}]

\* _process_single_point(point, point_index): the ImageMetadata returned,
\* or NoMetadata when it returns None (no tile downloaded, or an exception
\* caught by its `except Exception`, the AttributeError of a call to a
\* method the downloader does not have included)
process_single_point(center, point_index, grid_size, served, sv_image, sv_meta) ==
    IF CalledTileMethod \notin DownloaderMethods THEN NoMetadata
    ELSE LET tiles == calculate_tiles_for_point(center.x, center.y, center.z, grid_size)
             download_results ==
                 [k \in 1..Len(tiles) |-> [tile |-> tiles[k], success |-> tiles[k] \in served]]
             successful_downloads ==
                 Cardinality({ k \in 1..Len(tiles) : download_results[k].success })
         IN  IF successful_downloads = 0 THEN NoMetadata
             ELSE IF sv_image # "ok" \/ sv_meta # "ok" THEN NoMetadata
             ELSE [ok |-> TRUE, point_index |-> point_index, center |-> center,
                   records |-> {point_index}]

\* the loop of _process_points without `self.stats['failed_points'] += 1`
ProcessPointNoFailCount(sv_image, sv_meta) ==
    /\ run.state = "running"
    /\ LET i == run.next
           m == process_single_point(run.points[i], i, run.grid_size, run.served,
                                     sv_image, sv_meta)
       IN  run' = [run EXCEPT
                     !.next = i + 1,
                     !.image_metadatas = IF m.ok THEN Append(@, m) ELSE @,
                     !.successful_points = IF m.ok THEN @ + 1 ELSE @,
                     !.failed = IF m.ok THEN @ ELSE @ \cup {i},
                     !.state = IF i = Len(run.points) THEN "finished" ELSE "running"]
    /\ UNCHANGED << max_size, cache, access_order, disk, strategy, max_retries,
                    max_concurrency, permits, tasks, settled >>
    /\ UNCHANGED histVars
    /\ UNCHANGED << batch, geo, mosaic, conf, session, stats >>

\* one iteration of the loop of _process_points: the point is processed,
\* its metadata kept and its mosaic counted, or the point counted as failed
ProcessPoint(sv_image, sv_meta) ==
    /\ run.state = "running"
    /\ LET i == run.next
           m == process_single_point(run.points[i], i, run.grid_size, run.served,
                                     sv_image, sv_meta)
       IN  run' = [run EXCEPT
                     !.next = i + 1,
                     !.image_metadatas = IF m.ok THEN Append(@, m) ELSE @,
                     !.successful_points = IF m.ok THEN @ + 1 ELSE @,
                     !.failed_points = IF m.ok THEN @ ELSE @ + 1,
                     !.failed = IF m.ok THEN @ ELSE @ \cup {i},
                     !.state = IF i = Len(run.points) THEN "finished" ELSE "running"]
    /\ UNCHANGED << max_size, cache, access_order, disk, strategy, max_retries,
                    max_concurrency, permits, tasks, settled >>
    /\ UNCHANGED histVars
    /\ UNCHANGED << batch, geo, mosaic, conf, session, stats >>

\* DataProcessor._process_points(points) with a downloader from the factory
RunInit ==
    /\ max_size = 1
    /\ cache = EmptyDict
    /\ access_order = << >>
    /\ recency = << >>
    /\ lastOp = NoOp
    /\ disk = [t \in Tiles |-> "absent"]
    /\ strategy = "none"
    /\ max_retries = 0
    /\ max_concurrency = 1
    /\ permits = 0
    /\ tasks = [i \in TaskIds |-> IdleTask]
    /\ settled = {}
    /\ run \in [state : {"running"}, points : RunPoints, grid_size : GridSizes,
                served : ServedChoices, next : {1}, image_metadatas : {<< >>},
                successful_points : {0}, failed_points : {0}, failed : {{}}]
    /\ batch = Off /\ geo = Off /\ mosaic = Off /\ conf = Off
    /\ session = Off /\ stats = Off

RunNext == \E sv_image \in SaveOutcomes, sv_meta \in SaveOutcomes :
              ProcessPoint(sv_image, sv_meta)

RunSpec == RunInit /\ [][RunNext]_vars

\* the for loop of _process_points goes on to its next iteration
RunFairSpec == RunSpec /\ WF_vars(RunNext)

(* ---------------------- _process_points properties ---------------------- *)
\* the valid coordinates of the block around the centre of point i
TileSetOf(i) ==
    { t \in Block(run.points[i].x, run.points[i].y, RunZoom, run.grid_size) :
        ~OutOfRange(t) }

\* at least one tile of the tile set of point i can be fetched
SomeTileFetched(i) == TileSetOf(i) \cap run.served # {}

\* the mosaics the run has produced
Mosaics == { run.image_metadatas[k] : k \in 1..Len(run.image_metadatas) }

\* C17: a point is recorded as failed and yields no mosaic exactly when no
\* tile of its tile set is fetched successfully; with at least one
\* successful tile its mosaic is produced and it counts as successful; in
\* both cases the run goes on to the next point.
C17_FailedIffNoTile ==
    /\ \A i \in 1..(run.next - 1) :
          /\ (i \in run.failed) <=> ~SomeTileFetched(i)
          /\ (\E m \in Mosaics : m.point_index = i) <=> SomeTileFetched(i)
    /\ run.successful_points + run.failed_points = run.next - 1
    /\ run.state = "finished" <=> run.next = Len(run.points) + 1

\* C18: at most one mosaic per centre tile; the points of one centre tile
\* share it, each with its own pixel-coordinate record in it.
C18_OneMosaicPerCentre ==
    /\ \A m1, m2 \in Mosaics : m1.center = m2.center => m1 = m2
    /\ run.state = "finished"
         => \A i \in 1..Len(run.points) :
               SomeTileFetched(i)
               => \E m \in Mosaics : m.center = run.points[i] /\ i \in m.records

(* --------------------------------- Config ------------------------------- *)
\* values a configuration source can hold for zoom, grid_size and
\* max_concurrency: valid ones and ones just outside the valid range
ZoomValues == {0, 1, 18, 20, 21}
GridValues == {3, 4, 9}
ConcurrencyValues == {0, 1, 8}

\* DownloadConfig(): the defaults
DefaultDownload == [zoom |-> 18, grid_size |-> 9, max_concurrency |-> 8]

DownloadFields == {"zoom", "grid_size", "max_concurrency"}

FieldValues(key) ==
    CASE key = "zoom" -> ZoomValues
      [] key = "grid_size" -> GridValues
      [] key = "max_concurrency" -> ConcurrencyValues

\* DownloadConfig.__post_init__: TRUE when it raises no ValueError
PostInitAccepts(d) ==
    /\ ~(d.grid_size % 2 = 0)
    /\ ~(d.zoom < 1 \/ d.zoom > 20)
    /\ ~(d.max_concurrency < 1)

\* create_argument_parser: the values argparse lets through (choices for
\* --zoom and --grid-size, any int for --max-concurrency)
ParserAccepts(key, value) ==
    CASE key = "zoom" -> value \in 1..20
      [] key = "grid_size" -> value \in {3, 5, 7, 9, 11}
      [] key = "max_concurrency" -> TRUE

\* setattr(self.download, key, value)
SetAttr(d, key, value) == [d EXCEPT ![key] = value]

confUnchanged ==
    /\ UNCHANGED << max_size, cache, access_order, disk, strategy, max_retries,
                    max_concurrency, permits, tasks, settled >>
    /\ UNCHANGED histVars
    /\ UNCHANGED << batch, geo, mosaic, run, session, stats >>

\* DownloadConfig(zoom=..., grid_size=..., max_concurrency=...): the
\* dataclass is built and __post_init__ validates it
Construct(d) ==
    /\ conf.state = "ready"
    /\ conf' = IF PostInitAccepts(d)
                 THEN [conf EXCEPT !.download = d, !.way = "construction"]
                 ELSE [conf EXCEPT !.state = "rejected", !.way = "construction"]
    /\ confUnchanged

\* Config.load_from_file: a key of the "download" section of the file
load_from_file(key, value) ==
    /\ conf.state = "ready"
    /\ key \in DownloadFields
    /\ conf' = [conf EXCEPT !.download = SetAttr(@, key, value), !.way = "file"]
    /\ confUnchanged

\* Config.load_from_env: RS_ZOOM, RS_GRID_SIZE, RS_MAX_CONCURRENCY
load_from_env(key, value) ==
    /\ conf.state = "ready"
    /\ conf' = [conf EXCEPT !.download = SetAttr(@, key, value), !.way = "env"]
    /\ confUnchanged

\* Config.load_from_args: a value of the parsed command line
load_from_args(key, value) ==
    /\ conf.state = "ready"
    /\ ParserAccepts(key, value)
    /\ conf' = [conf EXCEPT !.download = SetAttr(@, key, value), !.way = "args"]
    /\ confUnchanged

\* RSDatasetGenerator._update_config_for_processing: a processing option
\* that names a field of config.download
update_config_for_processing(key, value) ==
    /\ conf.state = "ready"
    /\ key \in DownloadFields
    /\ conf' = [conf EXCEPT !.download = SetAttr(@, key, value), !.way = "options"]
    /\ confUnchanged

\* a downloader built on the configuration fetches the tile set of a point
\* (here a point of tile (0, 0)): a request goes out for every coordinate
\* that passes validate_tile_coordinates, in the concurrent strategy once a
\* permit of Semaphore(max_concurrency) is free
FetchWith(kind) ==
    /\ conf.state = "ready"
    /\ LET d == conf.download
           tiles == calculate_tiles_for_point(0, 0, d.zoom, d.grid_size)
           requested ==
               /\ \E k \in 1..Len(tiles) :
                     validate_tile_coordinates(tiles[k].x, tiles[k].y, tiles[k].z)
               /\ kind = "async" => d.max_concurrency > 0
       IN  conf' = [conf EXCEPT !.state = "fetched", !.downloader = kind,
                                !.requested = requested]
    /\ confUnchanged

\* Config(): the singleton with DownloadConfig()
ConfInit ==
    /\ max_size = 1
    /\ cache = EmptyDict
    /\ access_order = << >>
    /\ recency = << >>
    /\ lastOp = NoOp
    /\ disk = [t \in Tiles |-> "absent"]
    /\ strategy = "none"
    /\ max_retries = 0
    /\ max_concurrency = 1
    /\ permits = 0
    /\ tasks = [i \in TaskIds |-> IdleTask]
    /\ settled = {}
    /\ conf = [state |-> "ready", download |-> DefaultDownload, way |-> "default",
               downloader |-> "none", requested |-> FALSE]
    /\ batch = Off /\ geo = Off /\ mosaic = Off /\ run = Off
    /\ session = Off /\ stats = Off

ConfNext ==
    \/ \E d \in [zoom : ZoomValues, grid_size : GridValues,
                 max_concurrency : ConcurrencyValues] : Construct(d)
    \/ \E key \in DownloadFields : \E value \in FieldValues(key) : load_from_file(key, value)
    \/ \E key \in DownloadFields : \E value \in FieldValues(key) : load_from_env(key, value)
    \/ \E key \in DownloadFields : \E value \in FieldValues(key) : load_from_args(key, value)
    \/ \E key \in DownloadFields : \E value \in FieldValues(key) :
          update_config_for_processing(key, value)
    \/ \E kind \in {"sync", "async"} : FetchWith(kind)

ConfSpec == ConfInit /\ [][ConfNext]_vars

(* ---------------------------- Config properties ------------------------- *)
\* even grid_size, zoom outside 1..20 or max_concurrency < 1
InvalidDownload(d) ==
    \/ d.grid_size % 2 = 0
    \/ d.zoom \notin 1..20
    \/ d.max_concurrency < 1

\* C19: no network request is issued under a configuration with an even
\* grid_size, a zoom outside 1..20 or max_concurrency < 1: however the value
\* got in, the configuration is rejected before tile fetching starts.
C19_InvalidConfigNeverFetches ==
    InvalidDownload(conf.download)
    => /\ ~conf.requested
       /\ conf.state # "fetched"

(* ------------------------ one download per coordinate ------------------- *)
\* the fetch of slot t has downloaded its tile from the network and written
\* its file (a successful result that did not come from the cache)
Downloaded(t) ==
    /\ tasks[t].tile # NoKey
    /\ tasks[t].success
    /\ ~tasks[t].from_cache
    /\ tasks[t].requests > 0

\* C20: during a run the tile file of a coordinate is downloaded and written
\* at most once: no two fetches of a batch, whatever their interleaving and
\* even when the batch holds the coordinate twice, both request and write
\* the file of the same coordinate.
C20_DownloadedAtMostOnce ==
    \A t1 \in TaskIds : \A t2 \in TaskIds :
        (t1 # t2 /\ Downloaded(t1) /\ Downloaded(t2))
        => tasks[t1].tile # tasks[t2].tile

(* --------------------------- every point counted ------------------------ *)
\* C21: processing a list of n points terminates having attempted every
\* point; after i points successful_points + failed_points = i, and at the
\* end successful_points + failed_points = total_points = n.
C21_EveryPointCounted ==
    /\ [](run.successful_points + run.failed_points = run.next - 1)
    /\ [](run.state = "finished"
            => run.successful_points + run.failed_points = Len(run.points))
    /\ <>(run.state = "finished" /\ run.next = Len(run.points) + 1)

\* a run of several points has ended, points that failed among them
C21_Witness ==
    /\ run.state = "finished"
    /\ Len(run.points) > 1
    /\ run.failed_points > 1
    /\ run.next = Len(run.points) + 1

(* ---------------------------- DownloaderFactory ------------------------- *)
\* an attribute config.download does not have
Absent == "absent"

\* values of config.download.max_concurrency the factory is called with
FactoryConcurrencies == {0, 1, 2, 20}

\* config.download.expected_tiles: << >> when the attribute is not there
\* (DownloadConfig has no such field), else << value >>
FactoryExpectedTiles == {<< >>, << 0 >>, << 99 >>, << 100 >>, << 500 >>}

\* values of config.download.downloader_type, when the attribute is there
FactoryTypeStrings == {"sync", "async", "auto", "SYNC", "Async", "threaded"}

\* the downloader_type argument of create_downloader
DownloaderTypes == {"sync", "async", "auto"}

\* str.lower() on the type strings
Lower(str) ==
    CASE str = "SYNC" -> "sync"
      [] str = "Async" -> "async"
      [] OTHER -> str

\* getattr(obj, name, default)
GetAttr(value, default) == IF value = Absent THEN default ELSE value

\* getattr(obj, name, default) for expected_tiles
GetAttrInt(attr, default) == IF attr = << >> THEN default ELSE attr[1]

\* DownloaderFactory._get_downloader_type_from_config
get_downloader_type_from_config(type_attr) ==
    LET downloader_type_str == GetAttr(type_attr, "auto")
    IN  IF Lower(downloader_type_str) \in DownloaderTypes
          THEN Lower(downloader_type_str)
          ELSE "auto"

\* _auto_select_downloader_type with the threshold test `expected_tiles <= 100`
auto_select_inclusive(concurrency_attr, expected_attr) ==
    LET mc == concurrency_attr
        expected_tiles == GetAttrInt(expected_attr, 0)
    IN  IF mc <= 1 THEN "sync"
        ELSE IF expected_tiles <= 100 THEN "sync"
        ELSE "async"

\* DownloaderFactory._auto_select_downloader_type
auto_select_downloader_type(concurrency_attr, expected_attr) ==
    LET mc == concurrency_attr
        expected_tiles == GetAttrInt(expected_attr, 0)
    IN  IF mc <= 1 THEN "sync"
        ELSE IF expected_tiles < 100 THEN "sync"
        ELSE "async"

\* DownloaderFactory._downloaders
DownloaderClass(downloader_type) ==
    IF downloader_type = "sync" THEN "SyncDownloader" ELSE "AsyncDownloader"

\* DownloaderFactory.create_downloader(config, downloader_type): the class
\* of the downloader it returns
create_downloader(arg, type_attr, concurrency_attr, expected_attr) ==
    LET fromConfig == IF arg = None THEN get_downloader_type_from_config(type_attr)
                      ELSE arg
        selected == IF fromConfig = "auto"
                      THEN auto_select_downloader_type(concurrency_attr, expected_attr)
                      ELSE fromConfig
    IN  DownloaderClass(selected)

\* one call of DownloaderFactory.create_downloader
CreateDownloader ==
    /\ conf.state = "config"
    /\ conf' = [conf EXCEPT
                  !.state = "created",
                  !.downloader = create_downloader(conf.arg, conf.downloader_type,
                                                   conf.max_concurrency,
                                                   conf.expected_tiles)]
    /\ confUnchanged

\* a config object and the arguments of the call
FactoryInit ==
    /\ max_size = 1
    /\ cache = EmptyDict
    /\ access_order = << >>
    /\ recency = << >>
    /\ lastOp = NoOp
    /\ disk = [t \in Tiles |-> "absent"]
    /\ strategy = "none"
    /\ max_retries = 0
    /\ max_concurrency = 1
    /\ permits = 0
    /\ tasks = [i \in TaskIds |-> IdleTask]
    /\ settled = {}
    /\ conf \in [state : {"config"},
                 max_concurrency : FactoryConcurrencies,
                 expected_tiles : FactoryExpectedTiles,
                 downloader_type : FactoryTypeStrings \cup {Absent},
                 arg : DownloaderTypes \cup {None},
                 downloader : {"none"}]
    /\ batch = Off /\ geo = Off /\ mosaic = Off /\ run = Off
    /\ session = Off /\ stats = Off

FactoryNext == CreateDownloader

FactorySpec == FactoryInit /\ [][FactoryNext]_vars

(* ------------------------ DownloaderFactory properties ------------------ *)
\* the type the caller asks for: the argument, else the configured string
\* (case-insensitive), "auto" when neither names a type
RequestedType ==
    IF conf.arg # None THEN conf.arg
    ELSE IF conf.downloader_type = Absent THEN "auto"
    ELSE IF Lower(conf.downloader_type) \in DownloaderTypes
      THEN Lower(conf.downloader_type)
    ELSE "auto"

C23_AutoByConcurrencyAlone ==
    (conf.state = "created" /\ conf.arg = "auto" /\ conf.expected_tiles = << >>)
    => /\ conf.max_concurrency = 20 => conf.downloader = "AsyncDownloader"
       /\ conf.max_concurrency = 2 => conf.downloader = "SyncDownloader"

(* ----------------------- AsyncDownloader: the session ------------------- *)
\* most enter/exit pairs of one downloader
MaxPairs == 3

\* most requests sent through the session of one downloader
MaxGets == 3

\* aiohttp ClientSession.closed: a session is closed once close() has taken
\* its connector away, or when the connector it was built on is closed
SessionClosed(attr, connector_closed) ==
    \/ attr = "detached"
    \/ attr = "attached" /\ connector_closed

\* AsyncDownloader._ensure_session: self.session afterwards; a new
\* ClientSession is built on self.connector
ensure_session(attr, connector_closed) ==
    IF attr = None \/ SessionClosed(attr, connector_closed)
      THEN "attached"
      ELSE attr

\* AsyncDownloader._close_session: self.session and the connector
\* afterwards; ClientSession.close() closes the connector the session owns
close_session(attr, connector_closed) ==
    IF attr # None /\ ~SessionClosed(attr, connector_closed)
      THEN [attr |-> None, connector_closed |-> TRUE]
      ELSE [attr |-> attr, connector_closed |-> connector_closed]

sessionUnchanged ==
    /\ UNCHANGED << max_size, cache, access_order, disk, strategy, max_retries,
                    max_concurrency, permits, tasks, settled >>
    /\ UNCHANGED histVars
    /\ UNCHANGED << batch, geo, mosaic, conf, run, stats >>

\* AsyncDownloader.__aenter__
AEnter ==
    /\ session.pos = "outside"
    /\ session.pairs < MaxPairs
    /\ session' = [session EXCEPT
                     !.pos = "inside",
                     !.pairs = @ + 1,
                     !.attr = ensure_session(session.attr, session.connector_closed)]
    /\ sessionUnchanged

\* AsyncDownloader.__aexit__, after a body that ran through or raised
AExit(body) ==
    /\ session.pos = "inside"
    /\ LET c == close_session(session.attr, session.connector_closed)
       IN  session' = [session EXCEPT
                         !.pos = "outside",
                         !.body = body,
                         !.attr = c.attr,
                         !.connector_closed = c.connector_closed]
    /\ sessionUnchanged

\* a fetch (download_tile_async, in the context or through the synchronous
\* interface outside it): _ensure_session, then self.session.get, which
\* raises "Session is closed" on a closed session
SessionGet ==
    /\ session.gets + session.refused < MaxGets
    /\ LET attr == ensure_session(session.attr, session.connector_closed)
       IN  session' = [session EXCEPT
                         !.attr = attr,
                         !.gets = IF SessionClosed(attr, session.connector_closed)
                                    THEN @ ELSE @ + 1,
                         !.refused = IF SessionClosed(attr, session.connector_closed)
                                       THEN @ + 1 ELSE @]
    /\ sessionUnchanged

\* AsyncDownloader.__init__: the connector is made, the session is None
SessionInit ==
    /\ max_size = 1
    /\ cache = EmptyDict
    /\ access_order = << >>
    /\ recency = << >>
    /\ lastOp = NoOp
    /\ disk = [t \in Tiles |-> "absent"]
    /\ strategy = "none"
    /\ max_retries = 0
    /\ max_concurrency = 1
    /\ permits = 0
    /\ tasks = [i \in TaskIds |-> IdleTask]
    /\ settled = {}
    /\ session = [state |-> "on", pos |-> "outside", attr |-> None,
                  connector_closed |-> FALSE, pairs |-> 0, body |-> "none",
                  gets |-> 0, refused |-> 0]
    /\ batch = Off /\ geo = Off /\ mosaic = Off /\ conf = Off /\ run = Off
    /\ stats = Off

SessionNext ==
    \/ AEnter
    \/ \E body \in {"ok", "failed"} : AExit(body)
    \/ SessionGet

SessionSpec == SessionInit /\ [][SessionNext]_vars

(* ---------------------------- session properties ------------------------ *)
\* C24: inside the context the session exists and is open; after leaving
\* the context the session attribute is None; for any number of successive
\* enter/exit pairs, also when the body failed.
C24_SessionScoped ==
    /\ session.pos = "inside"
         => /\ session.attr # None
            /\ ~SessionClosed(session.attr, session.connector_closed)
    /\ (session.pos = "outside" /\ session.body # "none")
         => session.attr = None

(* ------------------- _geo_to_tile and _tile_to_geo ---------------------- *)
\* a float is kept as a fixed-point position (s steps, SubTile steps to a
\* tile) plus a rounding error of u units in the last place, small beside
\* any step.  A longitude stands for its x position (lon + 180) / 360 * 2^z
\* and a latitude for its y position (1 - asinh(tan(lat)) / pi) / 2 * 2^z.
Float(s, u) == [s |-> s, u |-> u]

\* the rounding error of one pass through the transcendental functions
\* (atan, sinh, degrees / radians, tan, asinh); the longitude formulas use
\* only multiplications and divisions that are exact for x / 2^z
RoundErr == {-1, 0, 1}

\* int() of a float, in tiles: truncation towards zero
IntOfFloat(f) ==
    IF f.s = 0 THEN 0
    ELSE IF f.s > 0
      THEN IF f.s % SubTile = 0 /\ f.u < 0 THEN IntTrunc(f.s) - 1 ELSE IntTrunc(f.s)
    ELSE IF (-f.s) % SubTile = 0 /\ f.u > 0 THEN IntTrunc(f.s) + 1 ELSE IntTrunc(f.s)

\* the latitude 0.0, which every function of the two formulas maps exactly
OnEquator(lat, zoom) == 2 * lat.s = Pow(2, zoom) * SubTile /\ lat.u = 0

\* ImageProcessor._tile_to_geo: the north-west corner of the tile; e is the
\* rounding error of the latitude
tile_to_geo(x, y, zoom, e) ==
    [lon |-> Float(x * SubTile, 0),
     lat |-> IF OnEquator(Float(y * SubTile, 0), zoom)
               THEN Float(y * SubTile, 0)
               ELSE Float(y * SubTile, e)]

\* ImageProcessor._geo_to_tile; e is the rounding error of the y position
geo_to_tile(lon, lat, zoom, e) ==
    [x |-> IntOfFloat(lon),
     y |-> IF OnEquator(lat, zoom)
             THEN IntOfFloat(lat)
             ELSE IntOfFloat(Float(lat.s, lat.u + e))]

\* _tile_to_geo, then _geo_to_tile on its result
TileToGeoAndBack(e1, e2) ==
    /\ geo.state = "conversion"
    /\ geo.kind = "tile"
    /\ ~geo.done
    /\ LET g == tile_to_geo(geo.x, geo.y, geo.zoom, e1)
           t == geo_to_tile(g.lon, g.lat, geo.zoom, e2)
       IN  geo' = [geo EXCEPT !.done = TRUE, !.lon = g.lon, !.lat = g.lat,
                              !.tx = t.x, !.ty = t.y]
    /\ UNCHANGED << max_size, cache, access_order, disk, strategy, max_retries,
                    max_concurrency, permits, tasks, settled >>
    /\ UNCHANGED histVars
    /\ UNCHANGED << batch, mosaic, conf, run, session, stats >>

\* _geo_to_tile on a point, then _tile_to_geo on its result
GeoToTileAndBack(e1, e2) ==
    /\ geo.state = "conversion"
    /\ geo.kind = "point"
    /\ ~geo.done
    /\ LET t == geo_to_tile(Float(geo.x, 0), Float(geo.y, 0), geo.zoom, e1)
           g == tile_to_geo(t.x, t.y, geo.zoom, e2)
       IN  geo' = [geo EXCEPT !.done = TRUE, !.lon = g.lon, !.lat = g.lat,
                              !.tx = t.x, !.ty = t.y]
    /\ UNCHANGED << max_size, cache, access_order, disk, strategy, max_retries,
                    max_concurrency, permits, tasks, settled >>
    /\ UNCHANGED histVars
    /\ UNCHANGED << batch, mosaic, conf, run, session, stats >>

\* the tiles of a zoom level, and the valid points (GeoPoint.validate)
ConversionInputs ==
    UNION { [state : {"conversion"}, kind : {"tile"}, zoom : {z},
             x : 0..(Pow(2, z) - 1), y : 0..(Pow(2, z) - 1),
             done : {FALSE}, lon : {Float(0, 0)}, lat : {Float(0, 0)},
             tx : {0}, ty : {0}]
            \cup
            [state : {"conversion"}, kind : {"point"}, zoom : {z},
             x : PointXs(z), y : PointYs(z),
             done : {FALSE}, lon : {Float(0, 0)}, lat : {Float(0, 0)},
             tx : {0}, ty : {0}]
            : z \in 1..MaxGeoZoom }

ConversionInit ==
    /\ max_size = 1
    /\ cache = EmptyDict
    /\ access_order = << >>
    /\ recency = << >>
    /\ lastOp = NoOp
    /\ disk = [t \in Tiles |-> "absent"]
    /\ strategy = "none"
    /\ max_retries = 0
    /\ max_concurrency = 1
    /\ permits = 0
    /\ tasks = [i \in TaskIds |-> IdleTask]
    /\ settled = {}
    /\ geo \in ConversionInputs
    /\ batch = Off /\ mosaic = Off /\ conf = Off /\ run = Off /\ session = Off /\ stats = Off

ConversionNext ==
    \/ \E e1 \in RoundErr, e2 \in RoundErr : TileToGeoAndBack(e1, e2)
    \/ \E e1 \in RoundErr, e2 \in RoundErr : GeoToTileAndBack(e1, e2)

ConversionSpec == ConversionInit /\ [][ConversionNext]_vars

(* --------------------------- conversion properties ---------------------- *)
\* two longitudes are less than the width of one tile apart
WithinOneTile(a, b) ==
    LET ds == a.s - b.s
        du == a.u - b.u
    IN  \/ -SubTile < ds /\ ds < SubTile
        \/ ds = SubTile /\ du < 0
        \/ ds = -SubTile /\ du > 0

\* two latitudes are at most the extent of one tile apart; in degrees that
\* extent, at most atan(sinh(2 pi / 2^z)), is less than the tile width of
\* 360 / 2^z degrees
WithinOneTileHeight(a, b) == -SubTile <= a.s - b.s /\ a.s - b.s <= SubTile

\* C25: for every valid zoom and tile (x, y) with 0 <= x, y < 2^z, tile ->
\* lon/lat -> tile gives (x, y) again; for every valid point, point -> tile
\* -> lon/lat differs from the point by less than one tile width.
C25_RoundTrip ==
    /\ (geo.done /\ geo.kind = "tile")
         => /\ geo.tx = geo.x
            /\ geo.ty = geo.y
    /\ (geo.done /\ geo.kind = "point")
         => /\ WithinOneTile(Float(geo.x, 0), geo.lon)
            /\ WithinOneTileHeight(Float(geo.y, 0), geo.lat)

(* ------------------ sequential and concurrent strategy ------------------ *)
\* what happens to one request of a batch: the network outcome and, when
\* the attempt gets as far as save_tile, how the save ends
RequestOutcomes ==
    { [net |-> net, sv |-> sv] :
        net \in BatchNetOutcomes, sv \in SaveOutcomes } \ 
    { o \in [net : BatchNetOutcomes, sv : SaveOutcomes] :
        ~ReachedSave(o.net) /\ o.sv # "ok" }

\* the coordinates of a list that get as far as a request
Requestable(tiles) ==
    { tiles[i] : i \in 1..Len(tiles) } \cap
    { t \in BatchTiles : validate_tile_coordinates(t.x, t.y, t.z) }

\* lists of pairwise distinct coordinates
DistinctLists ==
    { l \in BatchLists : \A i, j \in 1..Len(l) : i # j => l[i] # l[j] }

RECURSIVE attempts_from(_, _, _, _, _, _, _)
\* the retry loop of download_tile from attempt number `attempt` on, with
\* the outcome of each request taken from `oracle`: the result and the
\* cache and store afterwards
attempts_from(c, order, d, size, retries, tile, at) ==
    IF at.attempt >= Attempts(retries)
      THEN [result |-> [tile |-> tile, success |-> FALSE, from_cache |-> FALSE],
            c |-> c, order |-> order, d |-> d]
    ELSE LET o == at.oracle[tile][at.attempt]
             err == AttemptError(o.net, o.sv)
             d2 == IF ReachedSave(o.net) THEN SaveDisk(d, tile, o.net.body, o.sv) ELSE d
         IN  IF err = "ok"
               THEN LET r == CachePut(c, order, size, tile, o.net.body)
                    IN  [result |-> [tile |-> tile, success |-> TRUE,
                                     from_cache |-> FALSE],
                         c |-> r.c, order |-> r.order, d |-> d2]
               ELSE attempts_from(c, order, d2, size, retries, tile,
                                  [at EXCEPT !.attempt = @ + 1])

\* SyncDownloader.download_tile as a function: cache lookup, validation,
\* retry loop
download_tile(c, order, d, size, retries, tile, oracle) ==
    LET hit == load_cached_tile(c, order, size, d, tile)
    IN  IF hit.image # None
          THEN [result |-> [tile |-> tile, success |-> TRUE, from_cache |-> TRUE],
                c |-> hit.c, order |-> hit.order, d |-> d]
        ELSE IF ~validate_tile_coordinates(tile.x, tile.y, tile.z)
          THEN [result |-> [tile |-> tile, success |-> FALSE, from_cache |-> FALSE],
                c |-> hit.c, order |-> hit.order, d |-> d]
        ELSE attempts_from(hit.c, hit.order, d, size, retries, tile,
                           [oracle |-> oracle, attempt |-> 0])

RECURSIVE download_tiles(_, _, _, _, _, _, _)
\* SyncDownloader.download_tiles as a function: download_tile for each tile
\* in turn; the results and the store at the end
download_tiles(c, order, d, size, retries, tiles, oracle) ==
    IF tiles = << >> THEN [results |-> << >>, d |-> d]
    ELSE LET one == download_tile(c, order, d, size, retries, Head(tiles), oracle)
             rest == download_tiles(one.c, one.order, one.d, size, retries,
                                    Tail(tiles), oracle)
         IN  [results |-> << one.result >> \o rest.results, d |-> rest.d]

\* every request of a tile ends the way its first one did
OracleResponseFirstAttempt(t, w) ==
    /\ tasks[t].pc = "inflight"
    /\ LET o == batch.oracle[tasks[t].tile][0]
       IN  BatchResponse(t, o.net, o.sv, w)

\* the request of task t ends the way the oracle says for its tile and
\* attempt number
OracleResponse(t, w) ==
    /\ tasks[t].pc = "inflight"
    /\ LET o == batch.oracle[tasks[t].tile][tasks[t].attempt]
       IN  BatchResponse(t, o.net, o.sv, w)

\* a downloader of either strategy, a list of pairwise distinct tiles, a
\* memory cache that holds nothing the store does not hold, and the outcome
\* of every request fixed in advance per (tile, attempt)
EquivInit ==
    /\ strategy \in {"sync", "async"}
    /\ max_size \in 1..MaxCacheSize
    /\ disk \in { d \in InitialDisks : d[Tile(2, 0, 1)] = "absent" /\ d[Tile(0, 0, 0)] # "corrupt" }
    /\ \/ cache = EmptyDict /\ access_order = << >>
       \/ /\ disk[Tile(0, 0, 0)] \in Images
          /\ cache = DictSet(EmptyDict, Tile(0, 0, 0), disk[Tile(0, 0, 0)])
          /\ access_order = << Tile(0, 0, 0) >>
    /\ recency = << >>
    /\ lastOp = NoOp
    /\ max_retries \in 0..1
    /\ max_concurrency \in 1..MaxConcurrencyBound
    /\ strategy = "sync" => max_concurrency = 1
    /\ permits = IF strategy = "async" THEN max_concurrency ELSE 0
    /\ tasks = [i \in TaskIds |-> IdleTask]
    /\ settled = {}
    /\ \E tiles \in DistinctLists :
          batch \in [state : {"running"}, tiles : {tiles}, results : {<< >>},
                     next : {1}, interrupted : {FALSE},
                     oracle : [Requestable(tiles) -> [0..max_retries -> RequestOutcomes]],
                     cache0 : {cache}, order0 : {access_order}, disk0 : {disk}]
    /\ geo = Off /\ mosaic = Off /\ conf = Off /\ run = Off
    /\ session = Off /\ stats = Off

EquivNext ==
    \/ \E i \in TaskIds : BatchFetch(i)
    \/ \E t \in TaskIds, d \in Delays : BatchAcquire(t, d)
    \/ \E t \in TaskIds : BatchDelayDone(t)
    \/ \E t \in TaskIds, w \in RetryWaits : OracleResponse(t, w)
    \/ \E t \in TaskIds, d \in Delays : BatchWake(t, d)
    \/ BatchCollectSync
    \/ BatchGapDone
    \/ \E t \in TaskIds : BatchCollectAsync(t)

EquivSpec == EquivInit /\ [][EquivNext]_vars

(* ----------------------- strategy equivalence properties ---------------- *)
\* the (coordinate, success, from_cache) triples of a list of results
ResultSet(results) == { results[i] : i \in 1..Len(results) }

\* what the sequential strategy returns and leaves in the store for the
\* list, the initial cache and store and the request outcomes of the batch
Sequential ==
    download_tiles(batch.cache0, batch.order0, batch.disk0, max_size, max_retries,
                   batch.tiles, batch.oracle)

\* C26: for the same list of pairwise distinct tiles, the same initial cache
\* and store and the same network outcome per (tile, attempt), both
\* strategies return the same set of (coordinate, success, from_cache)
\* results and leave the same tiles in the on-disk store.
C26_StrategiesAgree ==
    batch.state = "returned" =>
        /\ ResultSet(batch.results) = ResultSet(Sequential.results)
        /\ Len(batch.results) = Len(Sequential.results)
        /\ disk = Sequential.d

\* a concurrent batch of two tiles has returned, one of them fetched after a
\* retry, with its results in another order than the sequential one
C26_Witness ==
    /\ batch.state = "returned"
    /\ strategy = "async"
    /\ Len(batch.results) > 1
    /\ batch.results # Sequential.results
    /\ \E i \in 1..Len(batch.results) :
          batch.results[i].success /\ ~batch.results[i].from_cache
    /\ \E i \in 1..Len(batch.results) : ~batch.results[i].success

(* ------------------------ validation and the cache ---------------------- *)
\* the fetch of slot t has returned a result for a coordinate that fails
\* validation
InvalidFetched(t) ==
    /\ tasks[t].pc = "done"
    /\ tasks[t].tile # NoKey
    /\ ~validate_tile_coordinates(tasks[t].tile.x, tasks[t].tile.y, tasks[t].tile.z)

\* C27: a fetch validates the coordinate before it consults the cache: a
\* coordinate that fails validation yields a failure result, without a
\* request, also when the store holds a tile file for it or the memory
\* cache an entry.
C27_ValidatedBeforeCache ==
    \A t \in TaskIds :
        InvalidFetched(t)
        => /\ ~tasks[t].success
           /\ ~tasks[t].from_cache
           /\ tasks[t].requests = 0

(* ------------------------- error of a failed fetch ---------------------- *)
\* the error kind of a DownloadError: timeout, connection, not_found,
\* rate_limited, server_error, http_error or unknown
KindOf(err) ==
    IF err \in {"unknown_not_image", "unknown_empty", "unknown_decode", "unknown_save"}
      THEN "unknown"
      ELSE err

\* the fetch of slot t has returned after all its attempts failed
AllAttemptsFailed(t) ==
    /\ tasks[t].pc = "done"
    /\ ~tasks[t].success
    /\ tasks[t].failures > 0
    /\ tasks[t].last_error # None

\* C28: when all attempts of a fetch have failed, the failure result carries
\* the error kind of the last failed attempt.
C28_LastErrorKind ==
    \A t \in TaskIds :
        AllAttemptsFailed(t) => tasks[t].error = KindOf(tasks[t].last_error)

(* ------------------------------- backoff -------------------------------- *)
\* C29: after failed attempt number a (from 0) the fetch sleeps
\* backoff_base^a plus a value drawn from retry_wait_range before the next
\* attempt; it sleeps after a failed attempt exactly when a < max_retries:
\* not after the final failed attempt, and not after a success.
C29_BackoffSleep ==
    [][ \A t \in TaskIds :
          (tasks[t].pc = "inflight" /\ tasks'[t].pc # "inflight")
          => LET a == tasks[t].attempt
                 failed == tasks'[t].failures = tasks[t].failures + 1
                 sleeps == tasks'[t].pc = "backoff" /\ tasks'[t].timer > 0
             IN  /\ sleeps <=> (failed /\ a < max_retries)
                 /\ sleeps => /\ tasks'[t].timer - Pow(backoff_base, a) \in RetryWaits
                              /\ tasks'[t].slept = tasks[t].slept + tasks'[t].timer
                 /\ ~sleeps => /\ tasks'[t].slept = tasks[t].slept
                               /\ tasks'[t].pc \in {"done", "raised"}
      ]_vars

\* a fetch sleeps after its second failed attempt: backoff_base^1 plus the
\* drawn wait
C29_Witness ==
    \E t \in TaskIds :
        /\ tasks[t].pc = "backoff"
        /\ tasks[t].attempt = 1
        /\ tasks[t].failures = 2
        /\ tasks[t].timer = Pow(backoff_base, 1) + 1

(* ---------------------- a downloaded tile is stored --------------------- *)
\* BaseDownloader.generate_tile_path: tile_save_dir / "tile_{z}_{x}_{y}.png",
\* as the fields the file name is made of
generate_tile_path(x, y, z) == << "tile", z, x, y, "png" >>

\* the fetch of slot t returns success with from_cache = False
DownloadedNow(t) ==
    /\ tasks[t].pc = "done"
    /\ tasks[t].success
    /\ ~tasks[t].from_cache

\* C30: when a fetch returns success with from_cache=false, the tile file
\* exists at the path determined by (z, x, y) and the memory cache holds the
\* coordinate as its most recently used entry; when saving the file fails,
\* the memory cache is left unchanged and the attempt counts as failed.
C30_StoredThenCached ==
    /\ [](\A t \in TaskIds :
            DownloadedNow(t)
            => /\ disk[tasks[t].tile] = tasks[t].image
               /\ tasks[t].image \in Images
               /\ \A u \in Tiles :
                     generate_tile_path(u.x, u.y, u.z)
                       = generate_tile_path(tasks[t].tile.x, tasks[t].tile.y,
                                            tasks[t].tile.z)
                     => u = tasks[t].tile
               /\ tasks[t].tile \in DOMAIN cache
               /\ cache[tasks[t].tile] = tasks[t].image
               /\ access_order # << >>
               /\ access_order[Len(access_order)] = tasks[t].tile)
    /\ [][ \A t \in TaskIds :
             (tasks[t].pc = "inflight" /\ tasks'[t].pc # "inflight"
                /\ disk' = disk /\ ~tasks'[t].success)
             => /\ cache' = cache
                /\ access_order' = access_order
                /\ tasks'[t].failures = tasks[t].failures + 1
         ]_vars

\* a download has just succeeded while the memory cache held another tile,
\* after an earlier attempt of the same fetch failed
C30_Witness ==
    \E t \in TaskIds :
        /\ DownloadedNow(t)
        /\ tasks[t].failures > 0
        /\ Len(access_order) > 1
        /\ access_order[Len(access_order)] = tasks[t].tile

(* -------------------------- download statistics ------------------------- *)
\* download_tiles / download_tiles_async is entered: total_downloads grows by
\* len(tiles) before the first fetch
BatchBegin ==
    /\ batch.state = "called"
    /\ batch' = [batch EXCEPT !.state = "running"]
    /\ stats' = update_stats(stats, "total_downloads", Len(batch.tiles))
    /\ UNCHANGED << max_size, cache, access_order, disk, strategy, max_retries,
                    max_concurrency, permits, tasks, settled >>
    /\ UNCHANGED histVars
    /\ UNCHANGED << geo, mosaic, conf, run, session >>

\* a downloader whose statistics were reset (monitor zeroed, memory cache
\* cleared) and a call download_tiles(tiles) about to be made; the tile
\* store may hold a file for Tile(0, 0, 0), decodable or not (disk0 keeps
\* the store the batch started from, as history)
StatsInit ==
    /\ strategy \in {"sync", "async"}
    /\ max_size \in 1..MaxCacheSize
    /\ cache = EmptyDict
    /\ access_order = << >>
    /\ recency = << >>
    /\ lastOp = NoOp
    /\ disk \in { d \in InitialDisks : d[Tile(2, 0, 1)] = "absent" }
    /\ max_retries \in 0..1
    /\ max_concurrency \in 1..MaxConcurrencyBound
    /\ strategy = "sync" => max_concurrency = 1
    /\ permits = IF strategy = "async" THEN max_concurrency ELSE 0
    /\ tasks = [i \in TaskIds |-> IdleTask]
    /\ settled = {}
    /\ stats = ZeroStats
    /\ batch \in [state : {"called"}, tiles : BatchLists, results : {<< >>},
                  next : {1}, interrupted : {FALSE}, disk0 : {disk}]
    /\ geo = Off /\ mosaic = Off /\ conf = Off /\ run = Off /\ session = Off

\* the batch runs to its end without an interrupt
StatsNext ==
    \/ BatchBegin
    \/ \E i \in TaskIds : BatchFetch(i)
    \/ \E t \in TaskIds, d \in Delays : BatchAcquire(t, d)
    \/ \E t \in TaskIds : BatchDelayDone(t)
    \/ \E t \in TaskIds, net \in BatchNetOutcomes, w \in RetryWaits :
          \E sv \in (IF ReachedSave(net) THEN SaveOutcomes ELSE {"ok"}) :
             BatchResponse(t, net, sv, w)
    \/ \E t \in TaskIds, d \in Delays : BatchWake(t, d)
    \/ BatchCollectSync
    \/ BatchGapDone
    \/ \E t \in TaskIds : BatchCollectAsync(t)

StatsSpec == StatsInit /\ [][StatsNext]_vars

\* this step is the start of the fetch in slot t: its call of
\* load_cached_tile for the coordinate tasks'[t].tile
LookupStep(t) == tasks[t].pc = "idle" /\ tasks'[t].pc # "idle"

\* C31: a lookup that misses in memory but finds a decodable tile file
\* returns the tile, puts it into the memory cache (the next lookup hits in
\* memory) and counts one cache hit; a lookup that finds the tile neither in
\* memory nor on disk returns nothing, counts exactly one cache miss and
\* leaves the memory cache as it was.
C31_LookupFallsThroughToDisk ==
    [][ \A t \in TaskIds :
          LookupStep(t) =>
            LET tile == tasks'[t].tile
            IN  /\ (tile \notin DOMAIN cache /\ disk[tile] \in Images)
                     => /\ tasks'[t].pc = "done" /\ tasks'[t].success
                        /\ tasks'[t].from_cache /\ tasks'[t].image = disk[tile]
                        /\ tile \in DOMAIN cache' /\ cache'[tile] = disk[tile]
                        /\ CacheGetValue(cache', tile) # None
                        /\ stats'.cache_hits = stats.cache_hits + 1
                        /\ stats'.cache_misses = stats.cache_misses
                /\ (tile \notin DOMAIN cache /\ disk[tile] = "absent")
                     => /\ ~tasks'[t].from_cache /\ tasks'[t].image = None
                        /\ stats'.cache_misses = stats.cache_misses + 1
                        /\ stats'.cache_hits = stats.cache_hits
                        /\ cache' = cache /\ access_order' = access_order ]_vars

\* C31 witness: after a lookup that found nothing, a fetch was served from
\* the tile file while the memory cache did not hold the tile, which it
\* holds now; one hit and one miss are counted
C31_Witness ==
    /\ stats # Off
    /\ stats.cache_hits = 1 /\ stats.cache_misses = 1
    /\ \E t \in TaskIds :
          /\ tasks[t].pc = "done" /\ tasks[t].from_cache
          /\ tasks[t].diskAtStart /\ ~tasks[t].memAtStart
          /\ tasks[t].tile \in DOMAIN cache

(* ------------------------- merge_tiles: the cells ----------------------- *)
\* the calls of paste made at pixel offset o
PastesAt(o) ==
    { k \in DOMAIN mosaic.image.pastes : mosaic.image.pastes[k].at = o }

\* C32: every one of the g*g cells receives exactly one paste at pixel
\* offset (column*256, row*256): the image of the successful result for the
\* absolute coordinate (center.x - g/2 + column, center.y - g/2 + row) when
\* there is one, else the placeholder; pasted tiles plus recorded missing
\* coordinates make g*g.
C32_OnePastePerCell ==
    mosaic.state = "merged"
    => LET g == mosaic.grid_size
           img == mosaic.image
       IN  /\ Len(img.pastes) = g * g
           /\ \A col, row \in 0..(g - 1) :
                /\ Cardinality(PastesAt(<< col * 256, row * 256 >>)) = 1
                /\ \A k \in PastesAt(<< col * 256, row * 256 >>) :
                     /\ img.pastes[k].content = Expected(col, row)
                     /\ img.pastes[k].tile
                          = << mosaic.center_tile.x - (g \div 2) + col,
                               mosaic.center_tile.y - (g \div 2) + row >>
           /\ img.successful_tiles + Len(img.missing_tiles) = g * g
           /\ \A k \in DOMAIN img.pastes :
                img.pastes[k].content = "MISSING"
                <=> \E m \in DOMAIN img.missing_tiles :
                       img.missing_tiles[m] = img.pastes[k].tile

\* C32 witness: a 3 x 3 mosaic with one fetched tile, off the diagonal, and
\* eight placeholders
C32_Witness ==
    /\ mosaic.state = "merged" /\ mosaic.grid_size = 3
    /\ mosaic.image.successful_tiles = 1
    /\ Len(mosaic.image.missing_tiles) = 8
    /\ mosaic.image.pasted[<< 512, 256 >>] \in Images

(* --------------------------- metadata bounds ---------------------------- *)
\* C33: the bounds recorded for a mosaic are those of the whole canvas: in
\* tile units they go from the north-west corner of the top-left tile to
\* the south-east corner of the bottom-right tile, g tiles in each
\* direction, and the point the mosaic was built for lies inside them.
C33_BoundsCoverCanvas ==
    (geo.placed /\ PointInMap)
    => LET g == geo.grid_size
           west == geo.bounds.top_left[1]
           north == geo.bounds.top_left[2]
           east == geo.bounds.bottom_right[1]
           south == geo.bounds.bottom_right[2]
       IN  /\ west = geo.center_tile.x - (g \div 2)
           /\ north = geo.center_tile.y - (g \div 2)
           /\ east - west = g
           /\ south - north = g
           /\ west * SubTile <= geo.px /\ geo.px <= east * SubTile
           /\ north * SubTile <= geo.py /\ geo.py <= south * SubTile

(* ----------------------- the cache and its users ------------------------ *)
\* a TileCache used through its API, or the cache of a downloader shared by
\* its fetches
SharedCacheInit == CacheInit \/ Init

SharedCacheNext == CacheNext \/ Next

SharedCacheSpec == SharedCacheInit /\ [][SharedCacheNext]_vars

\* C34: after any sequence of get, put and clear, and in every interleaving
\* of concurrent fetches that share the cache, the access-order list holds
\* each cached key exactly once and no key that is not cached.
C34_AccessOrderMatchesCache ==
    /\ { access_order[i] : i \in 1..Len(access_order) } = DOMAIN cache
    /\ Len(access_order) = Cardinality(DOMAIN cache)
    /\ \A i, j \in 1..Len(access_order) :
          i # j => access_order[i] # access_order[j]

\* C34 witness: two concurrent fetches of one coordinate both missed the
\* cache; the first has put its tile into a cache that held another key, the
\* second is still waiting for its response
C34_Witness ==
    /\ strategy = "async"
    /\ Cardinality(DOMAIN cache) = 2
    /\ \E t, u \in TaskIds :
          /\ t # u /\ tasks[t].tile = tasks[u].tile
          /\ tasks[t].pc = "done" /\ tasks[t].success /\ ~tasks[t].from_cache
          /\ tasks[u].pc = "inflight"
          /\ tasks[u].tile \in DOMAIN cache

\* C35: put of a key that is already cached replaces its image and makes it
\* the most recently used entry without evicting anything, also when the
\* cache is at capacity: the set of cached keys is unchanged.
C35_PutExistingKeepsKeys ==
    [][ ( ApiStep("put") /\ lastOp'.key \in DOMAIN cache )
        => /\ DOMAIN cache' = DOMAIN cache
           /\ cache'[lastOp'.key] = lastOp'.image
           /\ \A k \in (DOMAIN cache) \ {lastOp'.key} : cache'[k] = cache[k]
           /\ access_order'[Len(access_order')] = lastOp'.key
           /\ Len(access_order') = Len(access_order)
           /\ RemoveFirst(access_order', lastOp'.key)
                = RemoveFirst(access_order, lastOp'.key) ]_vars

\* C35 witness: on a full cache of capacity 2 the least recently used key
\* was put again with another image; both keys are still cached
C35_Witness ==
    /\ lastOp.op = "put" /\ lastOp.hit
    /\ max_size = 2 /\ CacheSize = 2
    /\ lastOp.image = "imgB"
    /\ \E k \in DOMAIN cache : k # lastOp.key /\ cache[k] = "imgA"
    /\ access_order[2] = lastOp.key

(* ------------------------ memory cache and tile store ------------------- *)
\* C36: with nobody deleting tile files, every coordinate held in the memory
\* cache has a (decodable) tile file in the store, and a coordinate enters
\* the memory cache only in a step that read its file or wrote it.
C36_CachedImpliesOnDisk ==
    /\ [](\A k \in DOMAIN cache : disk[k] \in Images)
    /\ [][ \A k \in (DOMAIN cache') \ (DOMAIN cache) :
             /\ disk'[k] \in Images
             /\ cache'[k] = disk'[k] ]_vars

\* C36 witness: the cache holds a tile read from its file and a tile that
\* was downloaded and saved, after a download whose save_tile had failed
C36_Witness ==
    /\ Cardinality(DOMAIN cache) = 2
    /\ \E k \in DOMAIN cache : disk[k] = "imgA" /\ cache[k] = "imgA"
    /\ \E t \in TaskIds :
          /\ tasks[t].pc = "done" /\ tasks[t].success /\ ~tasks[t].from_cache
          /\ tasks[t].failures > 0
          /\ tasks[t].tile \in DOMAIN cache

(* ----------------------- permits and sleeping fetches ------------------- *)
\* fetches whose attempt is at its request, decode or save
InFlight == { t \in TaskIds : tasks[t].pc = "inflight" }

\* fetches that sleep: the random delay before a retry's request, or the
\* backoff between two attempts
Sleeping == { t \in TaskIds : tasks[t].pc \in {"delay", "backoff"} }

\* C37: in the concurrent strategy a fetch holds a permit only during one
\* attempt (request, decode, save), acquired anew for each attempt: the
\* permits that are out are those of the attempts under way; no sleeping
\* fetch holds one, so a fetch that waits to retry never keeps another from
\* fetching.
C37_PermitOnlyDuringAttempt ==
    strategy = "async"
    => /\ max_concurrency - permits = Cardinality(InFlight)
       /\ \A t \in Sleeping : ~HoldsPermit(tasks[t])
       /\ \A t \in TaskIds : tasks[t].pc = "backoff" => ~HoldsPermit(tasks[t])

(* ------------------------- statistics of a batch ------------------------ *)
\* number of results of the batch that were served by load_cached_tile
ServedFromCache ==
    Cardinality({ i \in 1..Len(batch.results) : batch.results[i].from_cache })

\* results that report a coordinate that failed validation
InvalidFailures ==
    Cardinality({ i \in 1..Len(batch.results) :
                    /\ ~batch.results[i].success
                    /\ ~Valid(batch.results[i].tile) })

\* C38: after every uninterrupted batch on a downloader whose statistics
\* were reset, total_downloads = successful_downloads + failed_downloads +
\* results served from cache + invalid-coordinate failures, and cache_hits +
\* cache_misses = number of fetches performed.
C38_StatisticsAddUp ==
    batch.state = "returned"
    => /\ stats.total_downloads
            = stats.successful_downloads + stats.failed_downloads
              + ServedFromCache + InvalidFailures
       /\ stats.total_downloads = Len(batch.tiles)
       /\ stats.cache_hits + stats.cache_misses = Len(batch.results)
       /\ stats.cache_hits = ServedFromCache

\* C38 witness: a batch of two fetches returned; one tile was downloaded,
\* the other fetch was served from cache
C38_Witness ==
    /\ batch.state = "returned"
    /\ stats.total_downloads = 2
    /\ stats.successful_downloads = 1 /\ stats.failed_downloads = 0
    /\ stats.cache_hits = 1 /\ stats.cache_misses = 1
    /\ ServedFromCache = 1

(* ------------------------- undecodable tile files ----------------------- *)
\* C39: a tile file that exists but cannot be decoded is treated as a miss:
\* the lookup counts a cache miss and the fetch (of a valid coordinate) goes
\* to the network; when an attempt succeeds the file is overwritten and the
\* new image cached; the undecodable file is never returned as a tile and
\* never makes the fetch raise.
C39_UndecodableFileIsMiss ==
    /\ [](/\ \A t \in TaskIds :
               /\ tasks[t].pc # "raised"
               /\ tasks[t].image \in Images \cup {None}
          /\ \A k \in DOMAIN cache : cache[k] \in Images)
    /\ [][ \A t \in TaskIds :
             /\ ( /\ LookupStep(t)
                  /\ disk[tasks'[t].tile] = "corrupt"
                  /\ Valid(tasks'[t].tile) )
                => /\ stats'.cache_misses = stats.cache_misses + 1
                   /\ stats'.cache_hits = stats.cache_hits
                   /\ ~tasks'[t].from_cache
                   /\ tasks'[t].pc \in {"inflight", "waiting"}
                   /\ tasks'[t].pc = "inflight" => tasks'[t].requests = 1
                   /\ cache' = cache /\ disk' = disk
             /\ ( /\ tasks[t].pc = "inflight"
                  /\ disk[tasks[t].tile] = "corrupt"
                  /\ tasks'[t].pc = "done" /\ tasks'[t].success )
                => /\ tasks'[t].image \in Images
                   /\ disk'[tasks[t].tile] = tasks'[t].image
                   /\ cache'[tasks[t].tile] = tasks'[t].image ]_vars

\* C39 witness: the batch started with an undecodable file for a coordinate;
\* its fetch counted a miss, failed once, then downloaded the tile, which is
\* now in the file and in the memory cache
C39_Witness ==
    \E t \in TaskIds :
        /\ stats # Off /\ stats.cache_misses >= 1
        /\ tasks[t].pc = "done" /\ tasks[t].success /\ ~tasks[t].from_cache
        /\ batch.disk0[tasks[t].tile] = "corrupt"
        /\ tasks[t].failures = 1
        /\ disk[tasks[t].tile] = tasks[t].image
        /\ tasks[t].tile \in DOMAIN cache

(* --------------------- a concurrent batch comes to its end -------------- *)
\* an AsyncDownloader and the call download_tiles(tiles)
ConcurrentInit == BatchInit /\ strategy = "async"

\* the steps of download_tiles_async and of its tasks, no interrupt
ConcurrentNext ==
    \/ \E i \in TaskIds : BatchFetch(i)
    \/ \E t \in TaskIds, d \in Delays : BatchAcquire(t, d)
    \/ \E t \in TaskIds : BatchDelayDone(t)
    \/ \E t \in TaskIds, net \in BatchNetOutcomes, w \in RetryWaits :
          \E sv \in (IF ReachedSave(net) THEN SaveOutcomes ELSE {"ok"}) :
             BatchResponse(t, net, sv, w)
    \/ \E t \in TaskIds, d \in Delays : BatchWake(t, d)
    \/ \E t \in TaskIds : BatchCollectAsync(t)

\* the event loop runs a task that is ready, every sleep ends, and every
\* request answers or times out: a step that can be taken is taken
ConcurrentFairSpec ==
    ConcurrentInit /\ [][ConcurrentNext]_vars /\ WF_vars(ConcurrentNext)

\* C40: a concurrent batch with max_concurrency >= 1 eventually returns,
\* provided every request eventually answers or times out; no fetch waits
\* for a permit forever, and when the batch returns the semaphore is back
\* at max_concurrency.
C40_ConcurrentBatchReturns ==
    /\ <>(batch.state = "returned")
    /\ \A t \in TaskIds : (tasks[t].pc = "waiting") ~> (tasks[t].pc # "waiting")
    /\ [](batch.state = "returned"
            => /\ permits = max_concurrency
               /\ Len(batch.results) = Len(batch.tiles))

\* C40 witness: with one permit a batch of two tiles returned, one fetch
\* having used up its retries and the other having downloaded its tile; the
\* permit is back
C40_Witness ==
    /\ batch.state = "returned"
    /\ max_concurrency = 1 /\ permits = 1
    /\ max_retries = 1
    /\ Len(batch.results) = 2
    /\ \E i, j \in 1..2 :
          /\ ~batch.results[i].success /\ Valid(batch.results[i].tile)
          /\ batch.results[j].success /\ ~batch.results[j].from_cache
====
